---- MODULE Spec2Model ----
(***************************************************************************)
(* Notation and tuning engine of ihypy (src/systems.py, src/theory.py).    *)
(*                                                                         *)
(* A Python str is a sequence of characters.  A character is a one-letter  *)
(* TLA+ string, or "U+XXXX" for a code point outside ASCII.  A request is  *)
(* one call of the public interface; each action runs the whole call and   *)
(* records what it returned or raised.                                     *)
(***************************************************************************)
EXTENDS Integers, Sequences, FiniteSets, TLC

VARIABLES request, pc, ret, heap

vars == <<request, pc, ret, heap>>

-----------------------------------------------------------------------------
(* Bounds of the checked inputs.                                           *)

\* octave numbers 0..MaxOctave are written unsigned, with "+" and with "-"
MaxOctave == 2
\* every string over RawAlphabet of length 0..MaxLen is an input
MaxLen == 3
\* get_frequency_ratio is called on doubles with -MaxDelta..MaxDelta half steps
MaxDelta == 24

-----------------------------------------------------------------------------
(* Python built-ins used by the code.                                      *)

\* a local name bound to a value: F(v), with v computed once
Bind(v, F(_)) == CHOOSE r \in {F(x) : x \in {v}} : TRUE

Min(S) == CHOOSE x \in S : \A y \in S : x <= y
Max(S) == CHOOSE x \in S : \A y \in S : x >= y

\* s[a:b] for 0 <= a, b <= len(s)
Slice(s, a, b) == SubSeq(s, a + 1, b)

Digit == {"0", "1", "2", "3", "4", "5", "6", "7", "8", "9"}
Sign == {"+", "-"}

DigitValue(c) ==
    CASE c = "0" -> 0 [] c = "1" -> 1 [] c = "2" -> 2 [] c = "3" -> 3
      [] c = "4" -> 4 [] c = "5" -> 5 [] c = "6" -> 6 [] c = "7" -> 7
      [] c = "8" -> 8 [] c = "9" -> 9

RECURSIVE DecimalValue(_)
DecimalValue(ds) ==
    IF ds = <<>> THEN 0
    ELSE 10 * DecimalValue(SubSeq(ds, 1, Len(ds) - 1)) + DigitValue(ds[Len(ds)])

\* int(s) accepts an optional sign followed by one or more digits
IntParses(s) ==
    LET body == IF s # <<>> /\ s[1] \in Sign THEN Tail(s) ELSE s
    IN  body # <<>> /\ \A i \in 1..Len(body) : body[i] \in Digit

int(s) ==
    IF s[1] = "-" THEN 0 - DecimalValue(Tail(s))
    ELSE IF s[1] = "+" THEN DecimalValue(Tail(s))
    ELSE DecimalValue(s)

-----------------------------------------------------------------------------
(* The regular expressions the code compiles.  A pattern is a sequence of  *)
(* items: "class" one character of a set, "opt" at most one character of   *)
(* a set, "plus" one or more characters of a set, "alt" one of a set of    *)
(* literal strings.                                                        *)

CharClass(S) == [kind |-> "class", set |-> S]
Optional(S) == [kind |-> "opt", set |-> S]
OneOrMore(S) == [kind |-> "plus", set |-> S]
Alternation(S) == [kind |-> "alt", set |-> S]

\* the positions at which a match of pat that starts at position i can end
RECURSIVE MatchEnds(_, _, _)
MatchEnds(pat, s, i) ==
    IF pat = <<>> THEN {i}
    ELSE LET it == Head(pat)
             after ==
                 CASE it.kind = "class" ->
                        IF i <= Len(s) /\ s[i] \in it.set THEN {i + 1} ELSE {}
                   [] it.kind = "opt" ->
                        {i} \cup (IF i <= Len(s) /\ s[i] \in it.set THEN {i + 1} ELSE {})
                   [] it.kind = "plus" ->
                        {j \in (i + 1)..(Len(s) + 1) : \A k \in i..(j - 1) : s[k] \in it.set}
                   [] it.kind = "alt" ->
                        {j \in i..(Len(s) + 1) : SubSeq(s, i, j - 1) \in it.set}
         IN  UNION {MatchEnds(Tail(pat), s, j) : j \in after}

\* re.fullmatch(pat, s) is not None
fullmatch(pat, s) == (Len(s) + 1) \in MatchEnds(pat, s, 1)

\* re.search(pat, s).span(), 0-based; <<>> stands for None
None == <<>>
search(pat, s) ==
    Bind({i \in 1..(Len(s) + 1) : MatchEnds(pat, s, i) # {}},
         LAMBDA starts :
             IF starts = {} THEN None
             ELSE Bind(Min(starts),
                       LAMBDA i : <<i - 1, Max(MatchEnds(pat, s, i)) - 1>>))

-----------------------------------------------------------------------------
(* Python values.  A number is kept as twice its value, so that the half   *)
(* steps of the interval table are exact; float tells a float from an int. *)

PyInt(n) == [float |-> FALSE, twice |-> 2 * n]
PyFloat(twice) == [float |-> TRUE, twice |-> twice]
\* a + b: the sum is a float as soon as one operand is
PyAdd(a, b) == [float |-> a.float \/ b.float, twice |-> a.twice + b.twice]
\* a == b compares the values, 2 == 2.0
PyEq(a, b) == a.twice = b.twice
IsWhole(a) == a.twice % 2 = 0

PyStr(s) == [class |-> "str", text |-> s]
PyObj(c) == [class |-> c, text |-> <<>>]
PyNone == PyObj("NoneType")
\* isinstance(x, str)
IsStr(x) == "text" \in DOMAIN x /\ x.class = "str"

\* str(obj) for the objects that end up in an exception
str(obj) ==
    CASE obj.class = "InternationalPitchNotation" -> "International Pitch Notation"
      [] obj.class = "QualityNumberSystem" -> "Quality Number Notation"
      [] obj.class = "TwelveToneEqualTemperament" -> "EqualTemperament"
      [] obj.class = "FiveLimitTuning" -> "FiveLimitTuning"
      [] OTHER -> "str"

\* what a call did: the value it returned, or the exception it raised, and
\* the notations whose absolute half step it computed on the way
Returned(v, steps) ==
    [exc |-> "None", value |-> v, notation |-> None, notation_system |-> None,
     computed |-> steps]
Raised(e, steps) ==
    [exc |-> e, value |-> None, notation |-> None, notation_system |-> None,
     computed |-> steps]
NotationError(notation, notation_system, steps) ==
    [exc |-> "NotationError", value |-> None, notation |-> notation,
     notation_system |-> notation_system, computed |-> steps]
\* an exception of the call made ends the caller; else the caller goes on
Then(outcome, F(_)) ==
    Bind(outcome, LAMBDA o : IF o.exc # "None" THEN o ELSE F(o))

SemitoneInterval(semitones) == [unit |-> "semitones", relation |-> semitones]
Note(frequency) == [frequency |-> frequency]

-----------------------------------------------------------------------------
(* InternationalPitchNotation                                              *)

pitch_conversion ==
    (<<"C">> :> 0) @@ (<<"D">> :> 2) @@ (<<"E">> :> 4) @@ (<<"F">> :> 5) @@
    (<<"G">> :> 7) @@ (<<"A">> :> 9) @@ (<<"B">> :> 11)

\* The rows of the accidental table.  The first key of each row is the
\* string the source file holds: the three-character mis-decoding of the
\* UTF-8 bytes of the musical symbol.
accidental_double_flat ==
    (<<"U+00F0", "U+201E", "U+00AB">> :> -2) @@ (<<"b", "b">> :> -2) @@
    (<<"d", "o", "u", "b", "l", "e", "_", "f", "l", "a", "t">> :> -2) @@
    (<<"d", "f">> :> -2)
accidental_flat ==
    (<<"U+00E2", "U+2122", "U+00AD">> :> -1) @@ (<<"b">> :> -1) @@
    (<<"f", "l", "a", "t">> :> -1) @@ (<<"f">> :> -1)
accidental_natural ==
    (<<"U+00E2", "U+2122", "U+00AE">> :> 0) @@ (<<>> :> 0) @@
    (<<"n", "a", "t", "u", "r", "a", "l">> :> 0) @@ (<<"n">> :> 0)
accidental_sharp ==
    (<<"U+00E2", "U+2122", "U+00AF">> :> 1) @@ (<<"#">> :> 1) @@
    (<<"s", "h", "a", "r", "p">> :> 1) @@ (<<"s">> :> 1)
\* the double sharp abbreviated "ss"
accidental_double_sharp_ss ==
    (<<"U+00F0", "U+201E", "U+00AA">> :> 2) @@ (<<"x">> :> 2) @@
    (<<"d", "o", "u", "b", "l", "e", "_", "s", "h", "a", "r", "p">> :> 2) @@
    (<<"s", "s">> :> 2)
accidental_double_sharp ==
    (<<"U+00F0", "U+201E", "U+00AA">> :> 2) @@ (<<"x">> :> 2) @@
    (<<"d", "o", "u", "b", "l", "e", "_", "s", "h", "a", "r", "p">> :> 2) @@
    (<<"d", "s">> :> 2)

accidental_conversion ==
    accidental_double_flat @@ accidental_flat @@ accidental_natural
    @@ accidental_sharp @@ accidental_double_sharp

\* "[A-G]"
IPN_pitch == <<CharClass({"A", "B", "C", "D", "E", "F", "G"})>>
\* "(" + "|".join(keys) + ")"
IPN_accidental == <<Alternation(DOMAIN accidental_conversion)>>
\* "[+-]?\d+"
IPN_octave == <<Optional(Sign), OneOrMore(Digit)>>
IPN_valid_notation_pattern == IPN_pitch \o IPN_accidental \o IPN_octave

\* re.match in place of re.fullmatch: characters may follow the match
IPN_validate_notation_match(notation) ==
    MatchEnds(IPN_valid_notation_pattern, notation, 1) # {}

\* NotationSystem.validate_notation of an InternationalPitchNotation
IPN_validate_notation(notation) == fullmatch(IPN_valid_notation_pattern, notation)

\* the accidental read as the one character after the pitch letter
get_absolute_half_step_one_character(notation) ==
    Bind(search(IPN_octave, notation), LAMBDA m_octave :
        IF m_octave = None THEN [exc |-> "AttributeError", value |-> 0]
        ELSE LET pitch == Slice(notation, 0, 1)
                 accidental == IF m_octave[1] > 1 THEN Slice(notation, 1, 2) ELSE <<>>
                 octave == Slice(notation, m_octave[1], Len(notation))
             IN  IF ~IntParses(octave) THEN [exc |-> "ValueError", value |-> 0]
                 ELSE IF pitch \notin DOMAIN pitch_conversion
                         \/ accidental \notin DOMAIN accidental_conversion
                 THEN [exc |-> "KeyError", value |-> 0]
                 ELSE [exc |-> "None",
                       value |-> int(octave) * 12 + pitch_conversion[pitch]
                                 + accidental_conversion[accidental]])

\* the absolute number of half steps, C0 being 0; it raises where a search
\* finds nothing, int() cannot parse, or a key is missing
get_absolute_half_step(notation) ==
    Bind(search(IPN_pitch, notation), LAMBDA m_pitch :
    Bind(search(IPN_octave, notation), LAMBDA m_octave :
        IF m_pitch = None \/ m_octave = None THEN [exc |-> "AttributeError", value |-> 0]
        ELSE LET start_accidental_index == m_pitch[2]
                 end_accidental_index == m_octave[1]
                 pitch == Slice(notation, 0, start_accidental_index)
                 accidental == Slice(notation, start_accidental_index, end_accidental_index)
                 octave == Slice(notation, end_accidental_index, Len(notation))
             IN  IF ~IntParses(octave) THEN [exc |-> "ValueError", value |-> 0]
                 ELSE IF pitch \notin DOMAIN pitch_conversion
                         \/ accidental \notin DOMAIN accidental_conversion
                 THEN [exc |-> "KeyError", value |-> 0]
                 ELSE [exc |-> "None",
                       value |-> int(octave) * 12 + pitch_conversion[pitch]
                                 + accidental_conversion[accidental]]))

\* the difference of the two steps, the step of to_notation computed first
step_difference(from_notation, to_notation) ==
    Bind(get_absolute_half_step(to_notation), LAMBDA to_step :
        IF to_step.exc # "None" THEN Raised(to_step.exc, <<to_notation>>)
        ELSE Bind(get_absolute_half_step(from_notation), LAMBDA from_step :
            IF from_step.exc # "None"
            THEN Raised(from_step.exc, <<to_notation, from_notation>>)
            ELSE Returned(SemitoneInterval(PyInt(to_step.value - from_step.value)),
                          <<to_notation, from_notation>>)))

\* the check of to_notation left out
get_interval_between_unchecked_to(from_notation, to_notation) ==
    IF ~IPN_validate_notation(from_notation)
    THEN NotationError(PyStr(from_notation), PyObj("InternationalPitchNotation"), <<>>)
    ELSE step_difference(from_notation, to_notation)

get_interval_between(from_notation, to_notation) ==
    IF ~IPN_validate_notation(from_notation)
    THEN NotationError(PyStr(from_notation), PyObj("InternationalPitchNotation"), <<>>)
    ELSE IF ~IPN_validate_notation(to_notation)
    THEN NotationError(PyStr(to_notation), PyObj("InternationalPitchNotation"), <<>>)
    ELSE step_difference(from_notation, to_notation)

-----------------------------------------------------------------------------
(* Frequencies and frequency ratios.  A positive real that is a rational   *)
(* times 2^(e24 / 24) is kept exactly: odd gives the exponent, not 0, of   *)
(* every odd prime of the rational, e24 is any integer.                    *)

RECURSIVE OddPart(_)
OddPart(n) == IF n % 2 = 0 THEN OddPart(n \div 2) ELSE n

RECURSIVE TwoExponent(_)
TwoExponent(n) == IF n % 2 = 0 THEN 1 + TwoExponent(n \div 2) ELSE 0

RECURSIVE IntPow(_, _)
IntPow(b, k) ==
    IF k = 0 THEN 1
    ELSE Bind(IntPow(b, k \div 2),
              LAMBDA h : IF k % 2 = 0 THEN h * h ELSE h * h * b)

ExponentOf(f, p) == IF p \in DOMAIN f THEN f[p] ELSE 0
\* the exponents of a product a * b^k
Exponents(a, b, k) ==
    Bind([p \in DOMAIN a \cup DOMAIN b |-> ExponentOf(a, p) + k * ExponentOf(b, p)],
         LAMBDA sum : [p \in {q \in DOMAIN sum : sum[q] # 0} |-> sum[p]])
NoPrimes == [p \in {} |-> 0]

\* the exponents of the odd primes of n, all of them p or more
RECURSIVE Factors(_, _)
Factors(n, p) ==
    IF n = 1 THEN NoPrimes
    ELSE IF n % p = 0 THEN Exponents([q \in {p} |-> 1], Factors(n \div p, p), 1)
    ELSE Factors(n, p + 2)

\* num / den * 2^(e / 24), for num > 0 and den > 0
Real(num, den, e) ==
    [odd |-> Exponents(Factors(OddPart(num), 3), Factors(OddPart(den), 3), -1),
     e24 |-> e + 24 * (TwoExponent(num) - TwoExponent(den))]

RealMul(a, b) ==
    Bind(<<a, b>>, LAMBDA f :
        [odd |-> Exponents(f[1].odd, f[2].odd, 1), e24 |-> f[1].e24 + f[2].e24])
\* a ** k for an integer k >= 0
RealPow(a, k) ==
    Bind(a, LAMBDA f : [odd |-> Exponents(NoPrimes, f.odd, k), e24 |-> f.e24 * k])
\* a ** -1
RealInverse(a) ==
    Bind(a, LAMBDA f : [odd |-> Exponents(NoPrimes, f.odd, -1), e24 |-> 0 - f.e24])

-----------------------------------------------------------------------------
(* The floats of the interpreter are IEEE 754 doubles; the operators here  *)
(* compute them bit for bit, where the section above keeps the real number *)
(* a float stands for.  A natural number of any size is a sequence of      *)
(* limbs, least significant first, without leading zero limbs.             *)

LimbBits == 14
Base == 16384

BigNorm(a) == SubSeq(a, 1, Max({0} \cup {i \in 1..Len(a) : a[i] # 0}))

RECURSIVE BigFromInt(_)
BigFromInt(n) == IF n = 0 THEN <<>> ELSE <<n % Base>> \o BigFromInt(n \div Base)

LimbAt(a, i) == IF 1 <= i /\ i <= Len(a) THEN a[i] ELSE 0

\* the number whose limb i is c[i], any integer: what is over or under a
\* limb is carried to the next one until every limb is in 0..Base - 1
RECURSIVE Carry(_)
Carry(c) ==
    IF \A k \in 1..Len(c) : 0 <= c[k] /\ c[k] < Base THEN BigNorm(c)
    ELSE Carry([k \in 1..(Len(c) + 1) |-> (LimbAt(c, k) % Base) + (LimbAt(c, k - 1) \div Base)])

BigAdd(a, b) ==
    Bind([k \in 1..Max({Len(a), Len(b)}) |-> LimbAt(a, k) + LimbAt(b, k)], Carry)
\* a - b for a >= b
BigSub(a, b) == Bind([k \in 1..Len(a) |-> a[k] - LimbAt(b, k)], Carry)

BigLess(a, b) ==
    IF Len(a) # Len(b) THEN Len(a) < Len(b)
    ELSE \E i \in 1..Len(a) :
            a[i] < b[i] /\ \A k \in (i + 1)..Len(a) : a[k] = b[k]

\* a * b for b of at most four limbs, as a 53 bit number is
Column(a, b, k) ==
    LimbAt(a, k) * LimbAt(b, 1) + LimbAt(a, k - 1) * LimbAt(b, 2)
    + LimbAt(a, k - 2) * LimbAt(b, 3) + LimbAt(a, k - 3) * LimbAt(b, 4)
BigMul(a, b) == Bind([k \in 1..(Len(a) + 3) |-> Column(a, b, k)], Carry)

\* a ** k for a of at most four limbs
RECURSIVE BigPow(_, _)
BigPow(a, k) == IF k = 0 THEN <<1>> ELSE BigMul(BigPow(a, k - 1), a)

\* a * 2^n and floor(a / 2^n)
BigShl(a, n) ==
    Bind(IntPow(2, n % LimbBits), LAMBDA p :
        BigNorm([i \in 1..(n \div LimbBits) |-> 0]
                \o [i \in 1..(Len(a) + 1) |->
                       ((LimbAt(a, i) * p) % Base) + ((LimbAt(a, i - 1) * p) \div Base)]))
BigShr(a, n) ==
    Bind(<<n \div LimbBits, IntPow(2, n % LimbBits)>>, LAMBDA f :
        IF f[1] >= Len(a) THEN <<>>
        ELSE Bind(SubSeq(a, f[1] + 1, Len(a)), LAMBDA high :
            BigNorm([i \in 1..Len(high) |->
                        (high[i] \div f[2]) + (LimbAt(high, i + 1) % f[2]) * (Base \div f[2])])))
\* bit n of a, bit 0 being the lowest
BigBit(a, n) == (LimbAt(a, (n \div LimbBits) + 1) \div IntPow(2, n % LimbBits)) % 2
\* the n lowest bits of a are all 0
BigLowZero(a, n) ==
    /\ \A i \in 1..Min({Len(a), n \div LimbBits}) : a[i] = 0
    /\ LimbAt(a, (n \div LimbBits) + 1) % IntPow(2, n % LimbBits) = 0
BitLen(a) ==
    IF a = <<>> THEN 0
    ELSE LimbBits * (Len(a) - 1)
         + (CHOOSE k \in 1..LimbBits : IntPow(2, k - 1) <= a[Len(a)] /\ a[Len(a)] < IntPow(2, k))

\* floor(rest / d), limb by limb from limb i of the quotient down: a limb is
\* the quotient of the leading limbs, or up to 2 less, where the leading
\* limb of d is Base / 2 or more and rest < d * Base^i
RECURSIVE DivFrom(_, _, _, _)
DivFrom(rest, d, i, q) ==
    IF i < 1 THEN [q |-> BigNorm(q), exact |-> rest = <<>>]
    ELSE Bind([k \in 1..(i - 1) |-> 0] \o d, LAMBDA t :
         Bind(Min({Base - 1,
                   (LimbAt(rest, Len(t) + 1) * Base + LimbAt(rest, Len(t))) \div d[Len(d)]}),
              LAMBDA guess :
         Bind(CHOOSE x \in {Max({guess - 2, 0}), Max({guess - 1, 0}), guess} :
                  /\ ~BigLess(rest, BigMul(t, <<x>>))
                  /\ BigLess(rest, BigMul(t, <<x + 1>>)),
              LAMBDA x : DivFrom(BigSub(rest, BigMul(t, <<x>>)), d, i - 1, <<x>> \o q))))

\* floor(n / d), and whether n is a multiple of d
BigDiv(n, d) ==
    Bind(LimbBits - 1 - ((BitLen(d) - 1) % LimbBits), LAMBDA s :
    Bind(<<BigShl(n, s), BigShl(d, s)>>, LAMBDA f :
        DivFrom(f[1], f[2], Max({Len(f[1]) - Len(f[2]), 0}) + 1, <<>>)))

\* A double is neg, m and e: it is (-1)^neg * m * 2^e with 2^52 <= m < 2^53.
Precision == 53

\* n * 2^e, or a little more where inexact, rounded to the nearest double,
\* a tie going to the even one
Round(neg, n, e, exact) ==
    Bind(BitLen(n), LAMBDA len :
        IF len <= Precision
        THEN [neg |-> neg, m |-> BigShl(n, Precision - len), e |-> e - (Precision - len)]
        ELSE Bind(<<len - Precision, BigShr(n, len - Precision)>>, LAMBDA f :
            LET up == /\ BigBit(n, f[1] - 1) = 1
                      /\ \/ ~BigLowZero(n, f[1] - 1)
                         \/ ~exact
                         \/ BigBit(f[2], 0) = 1
            IN  IF ~up THEN [neg |-> neg, m |-> f[2], e |-> e + f[1]]
                ELSE Bind(BigAdd(f[2], <<1>>), LAMBDA m :
                        IF BitLen(m) > Precision
                        THEN [neg |-> neg, m |-> BigShr(m, 1), e |-> e + f[1] + 1]
                        ELSE [neg |-> neg, m |-> m, e |-> e + f[1]])))

\* (n / d) * 2^e rounded to the nearest double
RoundDiv(neg, n, d, e) ==
    Bind(56 - (BitLen(n) - BitLen(d)), LAMBDA s :
    Bind(BigDiv(IF s >= 0 THEN BigShl(n, s) ELSE n,
                IF s >= 0 THEN d ELSE BigShl(d, 0 - s)), LAMBDA f :
        Round(neg, f.q, e - s, f.exact)))

\* float(n) for an integer n # 0
float(n) == Round(n < 0, BigFromInt(IF n < 0 THEN 0 - n ELSE n), 0, TRUE)
\* a * b, a / b and a ** k for doubles a and b and an integer k
DMul(a, b) ==
    Bind(<<a, b>>, LAMBDA f :
        Round(f[1].neg # f[2].neg, BigMul(f[1].m, f[2].m), f[1].e + f[2].e, TRUE))
DDiv(a, b) ==
    Bind(<<a, b>>, LAMBDA f :
        RoundDiv(f[1].neg # f[2].neg, f[1].m, f[2].m, f[1].e - f[2].e))
DPow(a, k) ==
    IF k >= 0 THEN Round(a.neg /\ k % 2 = 1, BigPow(a.m, k), a.e * k, TRUE)
    ELSE RoundDiv(a.neg /\ k % 2 = 1, <<1>>, BigPow(a.m, 0 - k), 0 - a.e * (0 - k))

\* 2 ** (1 / 12) is the double 0x1.0f38f92d97963p+0
TwelfthRootOfTwo == [neg |-> FALSE, m |-> <<14691, 2917, 14585, 1084>>, e |-> -52]

-----------------------------------------------------------------------------
(* TuningSystem                                                            *)

\* self.__r ** delta_half_step, with self.__r = 2 ** (1 / 12)
TET_get_frequency_ratio(delta_half_step) ==
    [exc |-> "None", value |-> Real(1, 1, delta_half_step.twice)]

interval_ratio ==
    << <<1, 1>>, <<25, 24>>, <<9, 8>>, <<6, 5>>, <<5, 4>>, <<4, 3>>,
       <<45, 32>>, <<3, 2>>, <<8, 5>>, <<5, 3>>, <<9, 5>>, <<15, 8>> >>
octave_ratio == 2

\* divmod of a float gives floats, and a float does not index a list
FLT_get_frequency_ratio(delta_half_step) ==
    IF delta_half_step.float THEN [exc |-> "TypeError", value |-> None]
    ELSE LET d == delta_half_step.twice \div 2
             ascending == IF d >= 0 THEN 1 ELSE -1
             absolute == IF d >= 0 THEN d ELSE 0 - d
             octave == absolute \div 12
             interval == absolute % 12
             up == RealMul(RealPow(Real(octave_ratio, 1, 0), octave),
                           Real(interval_ratio[interval + 1][1],
                                interval_ratio[interval + 1][2], 0))
         IN  [exc |-> "None", value |-> IF ascending = 1 THEN up ELSE RealInverse(up)]

get_frequency_ratio(tuning_system, delta_unit) ==
    IF tuning_system = "TwelveToneEqualTemperament"
    THEN TET_get_frequency_ratio(delta_unit)
    ELSE FLT_get_frequency_ratio(delta_unit)

\* the same two methods on doubles, for an integer d
TET_get_frequency_ratio_double(d) == DPow(TwelfthRootOfTwo, d)

\* entry i of the table: the integer 1, or the quotient of two integers
interval_ratio_double(i) ==
    IF interval_ratio[i + 1][2] = 1 THEN float(interval_ratio[i + 1][1])
    ELSE DDiv(float(interval_ratio[i + 1][1]), float(interval_ratio[i + 1][2]))

FLT_get_frequency_ratio_double(d) ==
    LET ascending == IF d >= 0 THEN 1 ELSE -1
        absolute == IF d >= 0 THEN d ELSE 0 - d
        octave == absolute \div 12
        interval == absolute % 12
    IN  DPow(DMul(float(IntPow(octave_ratio, octave)), interval_ratio_double(interval)),
             ascending)

get_frequency_ratio_double(tuning_system, d) ==
    IF tuning_system = "TwelveToneEqualTemperament"
    THEN TET_get_frequency_ratio_double(d)
    ELSE FLT_get_frequency_ratio_double(d)

-----------------------------------------------------------------------------
(* MusicalSystem: WesternClassicalSystem and PtolemaicSystem               *)

MusicalSystems == {"WesternClassicalSystem", "PtolemaicSystem"}

\* both systems tuned by equal temperament
tuning_system_equal(self) == "TwelveToneEqualTemperament"

tuning_system(self) ==
    IF self = "WesternClassicalSystem" THEN "TwelveToneEqualTemperament"
    ELSE "FiveLimitTuning"

pitch_standard_notation == <<"A", "4">>
pitch_standard_frequency == 440

\* the body of the abstract MusicalSystem.get_frequency, called through super()
super_get_frequency(self, notation) ==
    IF ~IPN_validate_notation(notation)
    THEN NotationError(PyObj("InternationalPitchNotation"), PyObj(tuning_system(self)), <<>>)
    ELSE Returned(None, <<>>)

\* the interval taken from the notation to the pitch standard
get_frequency_reversed(self, notation) ==
    Then(super_get_frequency(self, notation), LAMBDA checked :
    Then(get_interval_between(notation, pitch_standard_notation), LAMBDA between :
    Bind(get_frequency_ratio(tuning_system(self), between.value.relation), LAMBDA ratio :
        IF ratio.exc # "None" THEN Raised(ratio.exc, between.computed)
        ELSE Returned(RealMul(Real(pitch_standard_frequency, 1, 0), ratio.value),
                      between.computed))))

get_frequency(self, notation) ==
    Then(super_get_frequency(self, notation), LAMBDA checked :
    Then(get_interval_between(pitch_standard_notation, notation), LAMBDA between :
    Bind(get_frequency_ratio(tuning_system(self), between.value.relation), LAMBDA ratio :
        IF ratio.exc # "None" THEN Raised(ratio.exc, between.computed)
        ELSE Returned(RealMul(Real(pitch_standard_frequency, 1, 0), ratio.value),
                      between.computed))))

create_note(self, notation) ==
    Then(get_frequency(self, notation),
         LAMBDA frequency : Returned(Note(frequency.value), frequency.computed))

-----------------------------------------------------------------------------
(* QualityNumberSystem                                                     *)

LowerLetters ==
    <<"a", "b", "c", "d", "e", "f", "g", "h", "i", "j", "k", "l", "m", "n", "o", "p", "q", "r", "s", "t", "u", "v", "w", "x", "y", "z">>
UpperLetters ==
    <<"A", "B", "C", "D", "E", "F", "G", "H", "I", "J", "K", "L", "M", "N", "O", "P", "Q", "R", "S", "T", "U", "V", "W", "X", "Y", "Z">>
IsLetter(c) == \E i \in 1..26 : c = LowerLetters[i] \/ c = UpperLetters[i]
upper(c) == IF \E i \in 1..26 : c = LowerLetters[i]
            THEN UpperLetters[CHOOSE i \in 1..26 : c = LowerLetters[i]] ELSE c
lower(c) == IF \E i \in 1..26 : c = UpperLetters[i]
            THEN LowerLetters[CHOOSE i \in 1..26 : c = UpperLetters[i]] ELSE c

\* str.title(): a letter that follows no letter is upper-cased, the others
\* are lower-cased
title(s) ==
    [i \in 1..Len(s) |->
        IF i = 1 \/ ~IsLetter(s[i - 1]) THEN upper(s[i]) ELSE lower(s[i])]

quality_conversion_perfect ==
    (<<"d", "i", "m", "i", "n", "i", "s", "h", "e", "d">> :> PyInt(-1)) @@
    (<<"p", "e", "r", "f", "e", "c", "t">> :> PyInt(0)) @@
    (<<"a", "u", "g", "m", "e", "n", "t", "e", "d">> :> PyInt(1))

quality_conversion_perfect_abbrev ==
    (<<"d">> :> PyInt(-1)) @@
    (<<"P">> :> PyInt(0)) @@
    (<<"A">> :> PyInt(1))

\* -1.5, -0.5, 0.5, 1.5
quality_conversion_imperfect ==
    (<<"d", "i", "m", "i", "n", "i", "s", "h", "e", "d">> :> PyFloat(-3)) @@
    (<<"m", "i", "n", "o", "r">> :> PyFloat(-1)) @@
    (<<"m", "a", "j", "o", "r">> :> PyFloat(1)) @@
    (<<"a", "u", "g", "m", "e", "n", "t", "e", "d">> :> PyFloat(3))

quality_conversion_imperfect_abbrev ==
    (<<"d">> :> PyFloat(-3)) @@
    (<<"m">> :> PyFloat(-1)) @@
    (<<"M">> :> PyFloat(1)) @@
    (<<"A">> :> PyFloat(3))

number_conversion_perfect ==
    (<<"u", "n", "i", "s", "o", "n">> :> PyInt(0)) @@
    (<<"f", "o", "u", "r", "t", "h">> :> PyInt(5)) @@
    (<<"f", "i", "f", "t", "h">> :> PyInt(7)) @@
    (<<"o", "c", "t", "a", "v", "e">> :> PyInt(12))

number_conversion_perfect_abbrev ==
    (<<"1">> :> PyInt(0)) @@
    (<<"4">> :> PyInt(5)) @@
    (<<"5">> :> PyInt(7)) @@
    (<<"8">> :> PyInt(12))

\* the sixth entered as 8 in place of 8.5
number_conversion_imperfect_whole ==
    (<<"s", "e", "c", "o", "n", "d">> :> PyFloat(3)) @@
    (<<"t", "h", "i", "r", "d">> :> PyFloat(7)) @@
    (<<"s", "i", "x", "t", "h">> :> PyInt(8)) @@
    (<<"s", "e", "v", "e", "n", "t", "h">> :> PyFloat(21))
\* 1.5, 3.5, 8.5, 10.5
number_conversion_imperfect ==
    (<<"s", "e", "c", "o", "n", "d">> :> PyFloat(3)) @@
    (<<"t", "h", "i", "r", "d">> :> PyFloat(7)) @@
    (<<"s", "i", "x", "t", "h">> :> PyFloat(17)) @@
    (<<"s", "e", "v", "e", "n", "t", "h">> :> PyFloat(21))

number_conversion_imperfect_abbrev ==
    (<<"2">> :> PyFloat(3)) @@
    (<<"3">> :> PyFloat(7)) @@
    (<<"6">> :> PyFloat(17)) @@
    (<<"7">> :> PyFloat(21))

alternative ==
    (<<"s", "e", "m", "i", "t", "o", "n", "e">> :> PyInt(1)) @@
    (<<"h", "a", "l", "f", " ", "t", "o", "n", "e">> :> PyInt(1)) @@
    (<<"h", "a", "l", "f", " ", "s", "t", "e", "p">> :> PyInt(1)) @@
    (<<"t", "o", "n", "e">> :> PyInt(1)) @@
    (<<"w", "h", "o", "l", "e", " ", "t", "o", "n", "e">> :> PyInt(1)) @@
    (<<"w", "h", "o", "l", "e", " ", "s", "t", "e", "p">> :> PyInt(1)) @@
    (<<"t", "r", "i", "s", "e", "m", "i", "t", "o", "n", "e">> :> PyInt(3)) @@
    (<<"t", "r", "i", "t", "o", "n", "e">> :> PyInt(6))

\* One pair of nested loops of __init__: every quality with every number,
\* joined by sep, maps to number + quality; titled adds the key's title().
\* No two pairs of one loop give the same key.
Combinations(quality_conversion, number_conversion, sep, titled) ==
    LET pairs == {<<q, n>> : q \in DOMAIN quality_conversion,
                             n \in DOMAIN number_conversion}
        quality(p) == p[1] \o sep \o p[2]
        number(p) == PyAdd(number_conversion[p[2]], quality_conversion[p[1]])
        keys == {quality(p) : p \in pairs}
                \cup (IF titled THEN {title(quality(p)) : p \in pairs} ELSE {})
    IN  [k \in keys |->
            number(CHOOSE p \in pairs :
                       quality(p) = k \/ (titled /\ title(quality(p)) = k))]

\* the fourth pair of loops run over the abbreviated perfect numbers
quality_number_conversion_crossed ==
    LET full_perfect == Combinations(quality_conversion_perfect,
                                     number_conversion_perfect, <<" ">>, TRUE)
        full_imperfect == Combinations(quality_conversion_imperfect,
                                       number_conversion_imperfect, <<" ">>, TRUE)
        abbrev_perfect == Combinations(quality_conversion_perfect_abbrev,
                                       number_conversion_perfect_abbrev, <<>>, FALSE)
        abbrev_imperfect == Combinations(quality_conversion_imperfect_abbrev,
                                         number_conversion_perfect_abbrev, <<>>, FALSE)
        other == [k \in DOMAIN alternative \cup {title(a) : a \in DOMAIN alternative} |->
                     alternative[CHOOSE a \in DOMAIN alternative : a = k \/ title(a) = k]]
    IN  other @@ abbrev_imperfect @@ abbrev_perfect @@ full_imperfect @@ full_perfect

\* the table after __init__: a later assignment to a key replaces an earlier
quality_number_conversion ==
    LET full_perfect == Combinations(quality_conversion_perfect,
                                     number_conversion_perfect, <<" ">>, TRUE)
        full_imperfect == Combinations(quality_conversion_imperfect,
                                       number_conversion_imperfect, <<" ">>, TRUE)
        abbrev_perfect == Combinations(quality_conversion_perfect_abbrev,
                                       number_conversion_perfect_abbrev, <<>>, FALSE)
        abbrev_imperfect == Combinations(quality_conversion_imperfect_abbrev,
                                         number_conversion_imperfect_abbrev, <<>>, FALSE)
        other == [k \in DOMAIN alternative \cup {title(a) : a \in DOMAIN alternative} |->
                     alternative[CHOOSE a \in DOMAIN alternative : a = k \/ title(a) = k]]
    IN  other @@ abbrev_imperfect @@ abbrev_perfect @@ full_imperfect @@ full_perfect

\* "(" + "|".join(keys) + ")"
QNS_valid_notation_pattern == <<Alternation(DOMAIN quality_number_conversion)>>

\* re.search in place of re.fullmatch: a key anywhere in the string
QNS_validate_notation_search(notation) ==
    search(QNS_valid_notation_pattern, notation) # None

\* NotationSystem.validate_notation of a QualityNumberSystem
QNS_validate_notation(notation) == fullmatch(QNS_valid_notation_pattern, notation)

get_interval(notation) ==
    IF ~QNS_validate_notation(notation)
    THEN NotationError(PyStr(notation), PyObj("QualityNumberSystem"), <<>>)
    ELSE IF notation \notin DOMAIN quality_number_conversion THEN Raised("KeyError", <<>>)
    ELSE Returned(SemitoneInterval(quality_number_conversion[notation]), <<>>)

-----------------------------------------------------------------------------
(* The scales and chords of theory.py, and MusicalSystem.create_scale,     *)
(* create_interval and create_chord.                                       *)

\* list * n
RECURSIVE ListRepeat(_, _)
ListRepeat(list, n) == IF n <= 0 THEN <<>> ELSE list \o ListRepeat(list, n - 1)

\* the half steps between the notes of one octave, by class
scale_increment ==
    [IonianScale |-> <<2, 2, 1, 2, 2, 2, 1>>,
     DorianScale |-> <<2, 1, 2, 2, 2, 1, 2>>,
     PhrygianScale |-> <<1, 2, 2, 2, 1, 2, 2>>,
     LydianScale |-> <<2, 2, 2, 1, 2, 2, 1>>,
     MixolydianScale |-> <<2, 2, 1, 2, 2, 1, 2>>,
     AeolianScale |-> <<2, 1, 2, 2, 1, 2, 2>>,
     LocrianScale |-> <<1, 2, 2, 1, 2, 2, 2>>,
     MajorScale |-> <<2, 2, 1, 2, 2, 2, 1>>,
     NaturalMinorScale |-> <<2, 1, 2, 2, 1, 2, 2>>]

\* class(octaves): no check is made on octaves
Scale(class, octaves) ==
    [class |-> class,
     increment |-> ListRepeat([i \in 1..7 |-> PyInt(scale_increment[class][i])], octaves)]

SemitoneChord(intervals) == [class |-> "SemitoneChord", intervals |-> intervals]
MajorTriad ==
    [class |-> "MajorTriad",
     intervals |-> <<SemitoneInterval(PyInt(4)), SemitoneInterval(PyInt(7))>>]

\* tonic = self.create_note(note) if isinstance(note, str) else note
tonic_of(self, note) ==
    IF IsStr(note) THEN create_note(self, note.text) ELSE Returned(note, <<>>)

\* Note(note.frequency * self.tuning_system.get_frequency_ratio(delta_unit))
note_above(self, note, delta_unit) ==
    Bind(get_frequency_ratio(tuning_system(self), delta_unit), LAMBDA ratio :
        IF ratio.exc # "None" THEN Raised(ratio.exc, <<>>)
        ELSE Returned(Note(RealMul(note.frequency, ratio.value)), <<>>))

\* every note taken from the first note of the scale
RECURSIVE scale_loop_from_first(_, _, _)
scale_loop_from_first(self, scale_instance, increment) ==
    IF increment = <<>> THEN Returned(scale_instance, <<>>)
    ELSE Then(note_above(self, scale_instance[1], Head(increment)), LAMBDA next :
            scale_loop_from_first(self, Append(scale_instance, next.value), Tail(increment)))

\* the loop of create_scale over what is left of scale.increment
RECURSIVE scale_loop(_, _, _)
scale_loop(self, scale_instance, increment) ==
    IF increment = <<>> THEN Returned(scale_instance, <<>>)
    ELSE Then(note_above(self, scale_instance[Len(scale_instance)], Head(increment)),
              LAMBDA next :
                  scale_loop(self, Append(scale_instance, next.value), Tail(increment)))

create_scale(self, scale, note) ==
    Then(tonic_of(self, note),
         LAMBDA tonic : scale_loop(self, <<tonic.value>>, scale.increment))

\* interval = get_interval(interval) if isinstance(interval, str) else interval
parsed(interval) ==
    IF IsStr(interval) THEN get_interval(interval.text) ELSE Returned(interval, <<>>)

create_interval(self, interval, note) ==
    Then(parsed(interval), LAMBDA i :
        IF note = PyNone THEN i
        ELSE Then(tonic_of(self, note), LAMBDA tonic :
             Then(note_above(self, tonic.value, i.value.relation), LAMBDA above :
                 Returned(<< <<tonic.value>>, <<above.value>> >>, <<>>))))

\* the loop of create_chord over what is left of chord.intervals
RECURSIVE chord_loop(_, _, _, _)
chord_loop(self, tonic, chord_instance, intervals) ==
    IF intervals = <<>> THEN Returned(chord_instance, <<>>)
    ELSE Then(note_above(self, tonic, Head(intervals).relation), LAMBDA above :
            chord_loop(self, tonic, Append(chord_instance, <<above.value>>),
                       Tail(intervals)))

\* a chord given as a string is left as it is, and has no intervals
create_chord(self, chord, note) ==
    IF note = PyNone THEN Returned(chord, <<>>)
    ELSE Then(tonic_of(self, note), LAMBDA tonic :
            IF IsStr(chord) THEN Raised("AttributeError", <<>>)
            ELSE chord_loop(self, tonic.value, << <<tonic.value>> >>, chord.intervals))

-----------------------------------------------------------------------------
(* The inputs of the checked calls.                                        *)

DigitChar(d) == CHOOSE c \in Digit : DigitValue(c) = d

\* str(n) for n >= 0
RECURSIVE Decimal(_)
Decimal(n) == IF n < 10 THEN <<DigitChar(n)>>
              ELSE Decimal(n \div 10) \o <<DigitChar(n % 10)>>

RECURSIVE StringsOver(_, _)
StringsOver(alphabet, n) ==
    IF n = 0 THEN {<<>>}
    ELSE LET shorter == StringsOver(alphabet, n - 1)
         IN  shorter \cup {Append(s, c) : s \in shorter, c \in alphabet}

RawAlphabet == {"C", "b", "#", "4", "-", "A", "d", "5"}
RawStrings == StringsOver(RawAlphabet, MaxLen)

\* the musical symbols themselves, which are not the keys of the table
UnicodeAccidentals ==
    {<<"U+1D12B">>, <<"U+266D">>, <<"U+266E">>, <<"U+266F">>, <<"U+1D12A">>}

Letters == {<<"A">>, <<"B">>, <<"C">>, <<"D">>, <<"E">>, <<"F">>, <<"G">>}
LetterInputs == Letters \cup {<<"H">>, <<"c">>}
AccidentalInputs ==
    DOMAIN accidental_conversion \cup UnicodeAccidentals
    \cup {<<"z">>, <<"b", "b", "b">>, <<"B">>, <<"f", "l">>, <<"S">>}
SignedOctaves ==
    {sign \o Decimal(n) : sign \in {<<>>, <<"+">>, <<"-">>}, n \in 0..MaxOctave}
OctaveInputs ==
    SignedOctaves
    \cup {<<"4">>, <<"0", "4">>, <<"1", "0">>, <<>>, <<"+">>, <<"4", "x">>,
          <<"-", "-", "1">>, <<"4", " ">>}

ValidExamples ==
    {<<"C", "4">>, <<"C", "5">>, <<"G", "4">>, <<"A", "4">>, <<"C", "0">>, <<"C", "b", "b", "4">>, <<"C", "b", "4">>, <<"C", "f", "l", "a", "t", "4">>, <<"C", "f", "4">>, <<"B", "#", "-", "1">>, <<"C", "n", "0", "4">>, <<"E", "x", "1", "0">>}
InvalidExamples ==
    {<<"C", "U+266D", "4">>,
     <<"C", "U+1D12B", "4">>,
     <<"H", "4">>,
     <<"c", "4">>,
     <<"C">>,
     <<"C", "#">>,
     <<"C", "z", "4">>,
     <<"C", "4", "x">>,
     <<"C", "-", "-", "1">>,
     <<"4">>,
     <<"C", "b", "b", "b", "4">>,
     <<"A", " ", "4">>,
     <<"d", "o", "u", "b", "l", "e", "_", "f", "l", "a", "t", "4">>}

NotationInputs ==
    {l \o a \o o : l \in LetterInputs, a \in AccidentalInputs, o \in OctaveInputs}
    \cup RawStrings \cup ValidExamples \cup InvalidExamples

\* the notations that are taken in pairs
PairInputs ==
    {l \o a \o <<"4">> : l \in Letters, a \in DOMAIN accidental_conversion}
    \cup {l \o a \o o : l \in Letters, a \in {<<>>, <<"#">>}, o \in SignedOctaves}
    \cup ValidExamples \cup InvalidExamples

AllQualities ==
    {<<<<"d", "i", "m", "i", "n", "i", "s", "h", "e", "d">>, <<"d">>>>, <<<<"m", "i", "n", "o", "r">>, <<"m">>>>, <<<<"m", "a", "j", "o", "r">>, <<"M">>>>,
     <<<<"p", "e", "r", "f", "e", "c", "t">>, <<"P">>>>, <<<<"a", "u", "g", "m", "e", "n", "t", "e", "d">>, <<"A">>>>}
AllNumbers ==
    {<<<<"u", "n", "i", "s", "o", "n">>, <<"1">>>>, <<<<"s", "e", "c", "o", "n", "d">>, <<"2">>>>, <<<<"t", "h", "i", "r", "d">>, <<"3">>>>,
     <<<<"f", "o", "u", "r", "t", "h">>, <<"4">>>>, <<<<"f", "i", "f", "t", "h">>, <<"5">>>>, <<<<"s", "i", "x", "t", "h">>, <<"6">>>>,
     <<<<"s", "e", "v", "e", "n", "t", "h">>, <<"7">>>>, <<<<"o", "c", "t", "a", "v", "e">>, <<"8">>>>}

\* every quality with every number, in the three spellings, and the other names
IntervalNames ==
    {q[1] \o <<" ">> \o n[1] : q \in AllQualities, n \in AllNumbers}
    \cup {title(q[1] \o <<" ">> \o n[1]) : q \in AllQualities, n \in AllNumbers}
    \cup {q[2] \o n[2] : q \in AllQualities, n \in AllNumbers}
    \cup DOMAIN alternative \cup {title(a) : a \in DOMAIN alternative}

\* a name with characters added, removed or in another letter case
Variants(k) ==
    {k, k \o <<" ">>, <<" ">> \o k, <<"x">> \o k, k \o k, k \o <<"s">>,
     SubSeq(k, 1, Len(k) - 1), Tail(k),
     [i \in 1..Len(k) |-> upper(k[i])], [i \in 1..Len(k) |-> lower(k[i])],
     [i \in 1..Len(k) |-> IF i = 1 THEN upper(k[i]) ELSE k[i]]}

IntervalInputs == (UNION {Variants(k) : k \in IntervalNames}) \cup RawStrings

\* the scales, with 0..MaxOctave octaves
ScaleInputs == {Scale(c, n) : c \in DOMAIN scale_increment, n \in 0..MaxOctave}
\* a starting note or tonic: a notation, or a Note
NoteObjects == {Note(Real(440, 1, 0)), Note(Real(100, 1, 0)), Note(Real(275, 1, 12))}
TonicInputs == {PyStr(s) : s \in ValidExamples \cup InvalidExamples} \cup NoteObjects
\* an interval: a string, or a SemitoneInterval
IntervalArguments ==
    {PyStr(k) : k \in DOMAIN quality_number_conversion}
    \cup {PyStr(<<"P", "5", " ">>), PyStr(<<"M", "5">>), PyStr(<<"A", "4", "x">>)}
    \cup {SemitoneInterval(PyInt(n)) : n \in {-12, -5, 0, 1, 7, 16}}
IntervalTonics ==
    {PyNone, PyStr(<<"A", "4">>), PyStr(<<"C", "#", "4">>), PyStr(<<"H", "4">>)}
    \cup NoteObjects
\* a chord: a class of theory.py, a SemitoneChord of any intervals, one of
\* intervals taken from the interval table, or a string
ChordInputs ==
    {MajorTriad,
     SemitoneChord(<<>>),
     SemitoneChord(<<SemitoneInterval(PyInt(3)), SemitoneInterval(PyInt(7)),
                     SemitoneInterval(PyInt(10))>>),
     SemitoneChord(<<SemitoneInterval(PyInt(-5)), SemitoneInterval(PyInt(12))>>),
     SemitoneChord(<<get_interval(<<"M", "3">>).value, get_interval(<<"P", "5">>).value>>),
     PyStr(<<"m", "a", "j">>)}

Request(op, system, notation, to_notation) ==
    [op |-> op, system |-> system, notation |-> notation, to_notation |-> to_notation]

-----------------------------------------------------------------------------
(* The state machine: a caller makes one call, the call runs to its end.   *)

NoOutcome == Raised("pending", <<>>)
NoRequest == Request("None", "None", None, None)

\* the Note objects a call works on, an object being known by its index
NoObjects == <<>>

Init ==
    /\ request = NoRequest
    /\ pc = "call"
    /\ ret = NoOutcome
    /\ heap = NoObjects

ValidateNotation ==
    /\ pc = "call"
    /\ \E s \in NotationInputs :
           /\ request' = Request("validate_notation", "None", s, None)
           /\ ret' = Returned(IPN_validate_notation(s), <<>>)
    /\ pc' = "done"
    /\ heap' = NoObjects

GetIntervalBetween ==
    /\ pc = "call"
    /\ \E a \in PairInputs, b \in PairInputs :
           /\ request' = Request("get_interval_between", "None", a, b)
           /\ ret' = get_interval_between(a, b)
    /\ pc' = "done"
    /\ heap' = NoObjects

CreateNote ==
    /\ pc = "call"
    /\ \E m \in MusicalSystems, s \in NotationInputs :
           /\ request' = Request("create_note", m, s, None)
           /\ ret' = create_note(m, s)
    /\ pc' = "done"
    /\ heap' = NoObjects

GetInterval ==
    /\ pc = "call"
    /\ \E s \in IntervalInputs :
           /\ request' = Request("get_interval", "None", s, None)
           /\ ret' = get_interval(s)
    /\ pc' = "done"
    /\ heap' = NoObjects

\* TuningSystem.get_frequency_ratio(delta_half_step), computed on doubles
GetFrequencyRatio ==
    /\ pc = "call"
    /\ \E t \in {"TwelveToneEqualTemperament", "FiveLimitTuning"}, d \in (0 - MaxDelta)..MaxDelta :
           /\ request' = [op |-> "get_frequency_ratio", system |-> t, delta_half_step |-> d]
           /\ ret' = Returned(get_frequency_ratio_double(t, d), <<>>)
    /\ pc' = "done"
    /\ heap' = NoObjects

CreateScale ==
    /\ pc = "call"
    /\ \E m \in MusicalSystems, scale \in ScaleInputs, note \in TonicInputs :
           /\ request' = [op |-> "create_scale", system |-> m, scale |-> scale, note |-> note]
           /\ ret' = create_scale(m, scale, note)
    /\ pc' = "done"
    /\ heap' = NoObjects

CreateInterval ==
    /\ pc = "call"
    /\ \E m \in MusicalSystems, interval \in IntervalArguments, note \in IntervalTonics :
           /\ request' = [op |-> "create_interval", system |-> m, interval |-> interval,
                          note |-> note]
           /\ ret' = create_interval(m, interval, note)
    /\ pc' = "done"
    /\ heap' = NoObjects

CreateChord ==
    /\ pc = "call"
    /\ \E m \in MusicalSystems, chord \in ChordInputs, note \in TonicInputs \cup {PyNone} :
           /\ request' = [op |-> "create_chord", system |-> m, chord |-> chord, note |-> note]
           /\ ret' = create_chord(m, chord, note)
    /\ pc' = "done"
    /\ heap' = NoObjects

Next ==
    \/ ValidateNotation
    \/ GetIntervalBetween
    \/ CreateNote
    \/ GetInterval
    \/ GetFrequencyRatio
    \/ CreateScale
    \/ CreateInterval
    \/ CreateChord

Spec == Init /\ [][Next]_vars

-----------------------------------------------------------------------------
(* ihypy/theory.py: the scales, the intervals and the notes.               *)

PyBool(b) == [class |-> "bool", true |-> b]
\* isinstance(x, int): an int, or a bool, which is an int
isinstance_int(x) == ("twice" \in DOMAIN x /\ ~x.float) \/ "true" \in DOMAIN x
\* the number an int or a bool stands for
IntValue(x) == IF "true" \in DOMAIN x THEN (IF x.true THEN 1 ELSE 0) ELSE x.twice \div 2

\* the Lydian and the Mixolydian patterns taken for one another
semitone_scale_increment_swapped ==
    [IonianScale |-> <<2, 2, 1, 2, 2, 2, 1>>,
     DorianScale |-> <<2, 1, 2, 2, 2, 1, 2>>,
     PhrygianScale |-> <<1, 2, 2, 2, 1, 2, 2>>,
     LydianScale |-> <<2, 2, 1, 2, 2, 1, 2>>,
     MixolydianScale |-> <<2, 2, 2, 1, 2, 2, 1>>,
     AeolianScale |-> <<2, 1, 2, 2, 1, 2, 2>>,
     LocrianScale |-> <<1, 2, 2, 1, 2, 2, 2>>,
     MajorScale |-> <<2, 2, 1, 2, 2, 2, 1>>,
     NaturalMinorScale |-> <<2, 1, 2, 2, 1, 2, 2>>,
     HarmonicMinorScale |-> <<2, 1, 2, 2, 1, 3, 1>>]

\* the increment each scale class hands to SemitoneScale.__init__
semitone_scale_increment ==
    [IonianScale |-> <<2, 2, 1, 2, 2, 2, 1>>,
     DorianScale |-> <<2, 1, 2, 2, 2, 1, 2>>,
     PhrygianScale |-> <<1, 2, 2, 2, 1, 2, 2>>,
     LydianScale |-> <<2, 2, 2, 1, 2, 2, 1>>,
     MixolydianScale |-> <<2, 2, 1, 2, 2, 1, 2>>,
     AeolianScale |-> <<2, 1, 2, 2, 1, 2, 2>>,
     LocrianScale |-> <<1, 2, 2, 1, 2, 2, 2>>,
     MajorScale |-> <<2, 2, 1, 2, 2, 2, 1>>,
     NaturalMinorScale |-> <<2, 1, 2, 2, 1, 2, 2>>,
     HarmonicMinorScale |-> <<2, 1, 2, 2, 1, 3, 1>>]

\* octaves is only asked to be an int
SemitoneScale_any_int(class, octaves) ==
    IF ~isinstance_int(octaves) THEN Raised("IntervalLengthError", <<>>)
    ELSE Returned([class |-> class,
                   octaves |-> octaves,
                   increment |-> ListRepeat(semitone_scale_increment[class],
                                            IntValue(octaves)),
                   unit |-> "semitones"], <<>>)

\* class(octaves), which ends in SemitoneScale.__init__(increment, octaves)
SemitoneScale(class, octaves) ==
    IF ~isinstance_int(octaves) \/ IntValue(octaves) < 1
    THEN Raised("IntervalLengthError", <<>>)
    ELSE Returned([class |-> class,
                   octaves |-> octaves,
                   increment |-> ListRepeat(semitone_scale_increment[class],
                                            IntValue(octaves)),
                   unit |-> "semitones"], <<>>)

\* the semitones each named interval class hands to SemitoneInterval.__init__
named_interval ==
    [MinorSecond |-> 1, MajorSecond |-> 2, MinorThird |-> 3, MajorThird |-> 4,
     PerfectFourth |-> 5, Tritone |-> 6, PerfectFifth |-> 7, MinorSixth |-> 8,
     MajorSixth |-> 9, MinorSeventh |-> 10, MajorSeventh |-> 11,
     PerfectOctave |-> 12, MinorNinth |-> 13, MajorNinth |-> 14,
     MinorTenth |-> 15, MajorTenth |-> 16, PerfectEleventh |-> 17,
     DiminishedTwelfth |-> 18, PerfectTwelfth |-> 19, MinorThirteenth |-> 20,
     MajorThirteenth |-> 21, MinorFourteenth |-> 22, MajorFourteenth |-> 23,
     PerfectFifteenth |-> 24]

\* an object of a subclass of Interval
IntervalObject(class, relation, unit) ==
    [class |-> class, relation |-> relation, unit |-> unit]
NamedInterval(class) == IntervalObject(class, PyInt(named_interval[class]), "semitones")
\* Interval is abstract and open to other units: a subclass counting in cents
CentInterval(cents) == IntervalObject("CentInterval", cents, "cents")
IntervalClasses == DOMAIN named_interval \cup {"SemitoneInterval", "CentInterval"}
\* issubclass(type(other), Interval)
issubclass_Interval(other) == "class" \in DOMAIN other /\ other.class \in IntervalClasses

\* intervals of two classes are never equal
Interval_eq_same_class(self, other) ==
    IF ~issubclass_Interval(other) THEN FALSE
    ELSE /\ self.class = other.class
         /\ PyEq(self.relation, other.relation)
         /\ self.unit = other.unit

\* Interval.__eq__(self, other)
Interval_eq(self, other) ==
    IF ~issubclass_Interval(other) THEN FALSE
    ELSE PyEq(self.relation, other.relation) /\ self.unit = other.unit

\* Note defines no __eq__: object.__eq__ tells whether the two are one object
Note_eq(self, other) == self = other

\* the note itself is given the new frequency
transpose_in_place(objects, self, frequency_ratio) ==
    [objects EXCEPT ![self] = Note(DMul(objects[self].frequency, frequency_ratio))]

\* Note.transpose: the new Note is the last of the objects
transpose(objects, self, frequency_ratio) ==
    Append(objects, Note(DMul(objects[self].frequency, frequency_ratio)))

\* Note.invert
invert(objects, self, about) ==
    Bind(DDiv(objects[self].frequency, objects[about].frequency),
         LAMBDA frequency_ratio :
             transpose(objects, about, DDiv(float(1), frequency_ratio)))

\* what octaves is given as: ints, floats, bools, a string and None
OctaveArguments ==
    {PyInt(n) : n \in -2..(MaxOctave + 1)}
    \cup {PyFloat(t) : t \in -1..(2 * MaxOctave + 1)}
    \cup {PyBool(TRUE), PyBool(FALSE), PyStr(<<"2">>), PyNone}

\* the intervals compared: every named class, and relations given directly
IntervalObjects ==
    {NamedInterval(c) : c \in DOMAIN named_interval}
    \cup {IntervalObject("SemitoneInterval", PyInt(n), "semitones") : n \in -1..MaxLen}
    \cup {IntervalObject("SemitoneInterval", PyFloat(t), "semitones") : t \in 1..(2 * MaxLen)}
    \cup {CentInterval(PyInt(n)) : n \in 0..MaxLen}
\* what an interval is compared with
OtherObjects ==
    IntervalObjects
    \cup {PyInt(n) : n \in 0..MaxLen}
    \cup {PyStr(<<"P", "5">>), PyNone, Note(float(7)),
          [class |-> "Lookalike", relation |-> PyInt(1), unit |-> "semitones"]}

\* frequencies in Hz, and the ratios notes are transposed by
Frequencies ==
    {float(440), float(100), float(3), float(-440),
     DMul(float(440), TET_get_frequency_ratio_double(-9)),
     DDiv(float(4400), float(7))}
Ratios ==
    {get_frequency_ratio_double(t, d) :
         t \in {"TwelveToneEqualTemperament", "FiveLimitTuning"},
         d \in (0 - MaxDelta)..MaxDelta}
    \cup {float(n) : n \in {-3, -1, 2, 3, 49}}
    \cup {DDiv(float(11), float(10)), DDiv(float(1), float(10))}

\* class(octaves) for a scale class
ConstructScale ==
    /\ pc = "call"
    /\ \E class \in DOMAIN semitone_scale_increment, octaves \in OctaveArguments :
           /\ request' = [op |-> "SemitoneScale", class |-> class, octaves |-> octaves]
           /\ ret' = SemitoneScale(class, octaves)
    /\ pc' = "done"
    /\ heap' = NoObjects

\* self == other, or other == self where other is no Interval: its own
\* __eq__ gives NotImplemented and the call goes to Interval.__eq__(self, other)
IntervalEquals ==
    /\ pc = "call"
    /\ \E self \in IntervalObjects, other \in OtherObjects, reflected \in BOOLEAN :
           /\ reflected => ~issubclass_Interval(other)
           /\ request' = [op |-> "Interval.__eq__", self |-> self, other |-> other,
                          reflected |-> reflected]
           /\ ret' = Returned(Interval_eq(self, other), <<>>)
    /\ pc' = "done"
    /\ heap' = NoObjects

\* two notes are created and one of them is compared with one of them
NoteEquals ==
    /\ pc = "call"
    /\ \E f \in Frequencies, g \in Frequencies, self \in 1..2, other \in 1..2 :
           /\ heap' = <<Note(f), Note(g)>>
           /\ request' = [op |-> "Note.__eq__", self |-> self, other |-> other]
           /\ ret' = Returned(Note_eq(self, other), <<>>)
    /\ pc' = "done"

\* note.transpose(r).transpose(1 / r)
TransposeAndBack ==
    /\ pc = "call"
    /\ \E f \in Frequencies, r \in Ratios :
           /\ request' = [op |-> "transpose", note |-> 1, frequency |-> f,
                          frequency_ratio |-> r]
           /\ \E once \in {transpose(<<Note(f)>>, 1, r)} :
              \E twice \in {transpose(once, Len(once), DDiv(float(1), r))} :
                  /\ heap' = twice
                  /\ ret' = Returned([once |-> Len(once), twice |-> Len(twice)], <<>>)
    /\ pc' = "done"

\* note.invert(about).invert(about), where about may be the note itself
InvertTwice ==
    /\ pc = "call"
    /\ \E f \in Frequencies, a \in Frequencies, about \in 1..2 :
           /\ about = 1 => a = f
           /\ request' = [op |-> "invert", note |-> 1, frequency |-> f, about |-> about]
           /\ \E objects \in {IF about = 1 THEN <<Note(f)>> ELSE <<Note(f), Note(a)>>} :
              \E once \in {invert(objects, 1, about)} :
              \E twice \in {invert(once, Len(once), about)} :
                  /\ heap' = twice
                  /\ ret' = Returned([once |-> Len(once), twice |-> Len(twice)], <<>>)
    /\ pc' = "done"

\* list.append(x) on the list object at ref
list_append(objects, ref, x) == [objects EXCEPT ![ref] = Append(@, x)]

\* SemitoneChord.__init__: self._intervals = intervals, the list it is given
SemitoneChord_init(intervals) == [class |-> "SemitoneChord", intervals |-> intervals]
\* Chord.intervals: return self._intervals, the list the chord holds
Chord_intervals(chord) == chord.intervals
\* Scale.increment: return self._increment, the list the scale holds
Scale_increment(scale) == scale.increment

\* the lists a chord is built from, and what is appended afterwards
IntervalLists ==
    {<<>>,
     <<NamedInterval("MajorThird"), NamedInterval("PerfectFifth")>>,
     <<NamedInterval("MinorThird"), NamedInterval("PerfectFifth"),
       NamedInterval("MinorSeventh")>>}
Appended == {NamedInterval(c) : c \in {"PerfectOctave", "MajorNinth", "Tritone"}}

\* L = [...]; chord = SemitoneChord(L); L.append(x)
ChangeCallersList ==
    /\ pc = "call"
    /\ \E L \in IntervalLists, x \in Appended :
           /\ request' = [op |-> "SemitoneChord", intervals |-> L, x |-> x,
                          through |-> "L"]
           /\ \E chord \in {SemitoneChord_init(1)} :
                  /\ heap' = list_append(<<L>>, 1, x)
                  /\ ret' = Returned(chord, <<>>)
    /\ pc' = "done"

\* chord = SemitoneChord([...]); chord.intervals.append(x)
ChangeIntervalsList ==
    /\ pc = "call"
    /\ \E L \in IntervalLists, x \in Appended :
           /\ request' = [op |-> "SemitoneChord", intervals |-> L, x |-> x,
                          through |-> "chord.intervals"]
           /\ \E chord \in {SemitoneChord_init(1)} :
                  /\ heap' = list_append(<<L>>, Chord_intervals(chord), x)
                  /\ ret' = Returned(chord, <<>>)
    /\ pc' = "done"

\* scale = class(octaves); scale.increment.append(x): the list the scale
\* holds is the new list that increment * octaves made
ChangeIncrementList ==
    /\ pc = "call"
    /\ \E class \in DOMAIN semitone_scale_increment, octaves \in 1..MaxOctave,
          x \in 0..MaxLen :
           /\ request' = [op |-> "scale.increment", class |-> class,
                          octaves |-> PyInt(octaves), x |-> x]
           /\ \E made \in {SemitoneScale(class, PyInt(octaves)).value} :
              \E scale \in {[made EXCEPT !.increment = 1]} :
                  /\ heap' = list_append(<<made.increment>>, Scale_increment(scale), x)
                  /\ ret' = Returned(scale, <<>>)
    /\ pc' = "done"

\* a class itself, where an object is expected
PyClass(name) == [class |-> "type", name |-> name]
IsClass(x) == "name" \in DOMAIN x

\* ihypy/theory.py, SemitoneInterval.__add__: issubclass(other, ...) raises
\* TypeError for an object; a class that passes has a property for relation,
\* which an int cannot be added to; any other class is turned down
SemitoneInterval_add(self, other) ==
    IF ~IsClass(other) THEN Raised("TypeError", <<>>)
    ELSE IF other.name \notin IntervalClasses \ {"CentInterval"}
    THEN Raised("TypeError", <<>>)
    ELSE Raised("TypeError", <<>>)

\* theory.py, SemitoneInterval.__add__: other.relation is read unchecked
theory_SemitoneInterval_add(self, other) ==
    IF IsClass(other)
    THEN Raised(IF other.name \in IntervalClasses THEN "TypeError" ELSE "AttributeError",
                <<>>)
    ELSE IF "relation" \notin DOMAIN other THEN Raised("AttributeError", <<>>)
    ELSE Returned(SemitoneInterval(PyAdd(self.relation, other.relation)), <<>>)

\* what an interval is added to: intervals, and values that are none
Addends ==
    {IntervalObject("SemitoneInterval", PyInt(n), "semitones") : n \in -2..MaxLen}
    \cup {NamedInterval("MajorThird"), CentInterval(PyInt(100)), PyInt(3), PyNone,
          PyStr(<<"P", "5">>), PyClass("SemitoneInterval"), PyClass("MajorThird"),
          PyClass("Note")}

\* self + other, in ihypy/theory.py and in theory.py
AddIntervals ==
    /\ pc = "call"
    /\ \E a \in -2..MaxLen, other \in Addends, module \in {"ihypy/theory.py", "theory.py"} :
           /\ request' = [op |-> "SemitoneInterval.__add__", module |-> module,
                          self |-> IntervalObject("SemitoneInterval", PyInt(a), "semitones"),
                          other |-> other]
           /\ ret' = IF module = "theory.py"
                     THEN theory_SemitoneInterval_add(request'.self, other)
                     ELSE SemitoneInterval_add(request'.self, other)
    /\ pc' = "done"
    /\ heap' = NoObjects

\* sum(list)
RECURSIVE sum(_)
sum(list) == IF list = <<>> THEN 0 ELSE Head(list) + sum(Tail(list))

\* x in list, and list.remove(x), by Interval.__eq__
interval_in(x, list) == \E i \in 1..Len(list) : Interval_eq(list[i], x)
list_remove(list, x) ==
    Bind(Min({i \in 1..Len(list) : Interval_eq(list[i], x)}), LAMBDA first :
        SubSeq(list, 1, first - 1) \o SubSeq(list, first + 1, Len(list)))

\* the two loops of arpeggiate: octave by octave, degree by degree
arpeggio_intervals(self, degrees) ==
    [k \in 1..(IntValue(self.octaves) * Len(degrees)) |->
        IntervalObject("SemitoneInterval",
            PyInt(12 * ((k - 1) \div Len(degrees))
                  + sum(SubSeq(self.increment, 1, degrees[((k - 1) % Len(degrees)) + 1] - 1))),
            "semitones")]

\* the unison is left where it is
arpeggiate_with_unison(self, degrees) ==
    SemitoneChord_init(arpeggio_intervals(self, degrees))

\* SemitoneScale.arpeggiate(degrees)
arpeggiate(self, degrees) ==
    Bind(arpeggio_intervals(self, degrees), LAMBDA intervals :
    Bind(IntervalObject("SemitoneInterval", PyInt(0), "semitones"), LAMBDA unison :
        IF interval_in(unison, intervals)
        THEN SemitoneChord_init(
                 Append(list_remove(intervals, unison),
                        IntervalObject("SemitoneInterval",
                                       PyInt(12 * IntValue(self.octaves)), "semitones")))
        ELSE SemitoneChord_init(intervals)))

\* the elements of a set of numbers, in ascending order
RECURSIVE Ascending(_)
Ascending(S) == IF S = {} THEN <<>> ELSE <<Min(S)>> \o Ascending(S \ {Min(S)})
\* every strictly ascending list of degrees of the scale
DegreeLists == {Ascending(S) : S \in SUBSET (1..7)}

Arpeggiate ==
    /\ pc = "call"
    /\ \E class \in DOMAIN semitone_scale_increment, octaves \in 1..MaxOctave,
          degrees \in DegreeLists :
           /\ request' = [op |-> "arpeggiate", class |-> class, octaves |-> octaves,
                          degrees |-> degrees]
           /\ ret' = Returned(arpeggiate(SemitoneScale(class, PyInt(octaves)).value,
                                         degrees), <<>>)
    /\ pc' = "done"
    /\ heap' = NoObjects

\* the names given to the interval classes after them, in the order of the
\* assignments: NewName = Class
alias ==
    <<<<"AugmentedUnison", "MinorSecond">>, <<"Semitone", "MinorSecond">>,
      <<"HalfTone", "MinorSecond">>, <<"HalfStep", "MinorSecond">>,
      <<"DiminishedThird", "MajorSecond">>, <<"Tone", "MajorSecond">>,
      <<"WholeTone", "MajorSecond">>, <<"WholeStep", "MajorSecond">>,
      <<"AugmentedSecond", "MinorThird">>, <<"Trisemitone", "MinorThird">>,
      <<"DiminishedFourth", "MajorThird">>, <<"AugmentedThird", "PerfectFourth">>,
      <<"DiminishedFifth", "Tritone">>, <<"AugmentedFourth", "Tritone">>,
      <<"DiminishedSixth", "PerfectFifth">>, <<"AugmentedFifth", "MinorSixth">>,
      <<"DiminishedSeventh", "MajorSixth">>, <<"AugmentedSixth", "MinorSeventh">>,
      <<"DiminishedOctave", "MajorSeventh">>, <<"AugmentedSeventh", "PerfectOctave">>,
      <<"DiminishedNinth", "PerfectOctave">>, <<"AugmentedOctave", "MinorNinth">>,
      <<"DiminishedTenth", "MajorNinth">>, <<"AugmentedNinth", "MinorTenth">>,
      <<"DiminishedFourth", "MajorTenth">>, <<"AugmentedThird", "PerfectEleventh">>,
      <<"AugmentedEleventh", "DiminishedTwelfth">>, <<"DiminishedThirteenth", "PerfectTwelfth">>,
      <<"Tritave", "PerfectTwelfth">>, <<"AugmentedTwelfth", "MinorThirteenth">>,
      <<"DiminishedFourteenth", "MajorThirteenth">>, <<"AugmentedThirteenth", "MinorFourteenth">>,
      <<"DiminishedFifteenth", "MajorFourteenth">>, <<"AugmentedFourteenth", "PerfectFifteenth">>,
      <<"DoubleOctave", "PerfectFifteenth">>>>

\* the class a name stands for once the module is loaded: the class of that
\* name, or what the last assignment to the name gave it
class_of(name) ==
    IF name \in DOMAIN named_interval THEN name
    ELSE alias[Max({i \in 1..Len(alias) : alias[i][1] = name})][2]

\* every assignment but the first to a name is passed over
class_of_first(name) ==
    IF name \in DOMAIN named_interval THEN name
    ELSE alias[Min({i \in 1..Len(alias) : alias[i][1] = name})][2]

\* each name of an interval class in words, as the interval table spells names
interval_words ==
    [MinorSecond |-> <<"m", "i", "n", "o", "r", " ", "s", "e", "c", "o", "n", "d">>,
     MajorSecond |-> <<"m", "a", "j", "o", "r", " ", "s", "e", "c", "o", "n", "d">>,
     MinorThird |-> <<"m", "i", "n", "o", "r", " ", "t", "h", "i", "r", "d">>,
     MajorThird |-> <<"m", "a", "j", "o", "r", " ", "t", "h", "i", "r", "d">>,
     PerfectFourth |-> <<"p", "e", "r", "f", "e", "c", "t", " ", "f", "o", "u", "r", "t", "h">>,
     Tritone |-> <<"t", "r", "i", "t", "o", "n", "e">>,
     PerfectFifth |-> <<"p", "e", "r", "f", "e", "c", "t", " ", "f", "i", "f", "t", "h">>,
     MinorSixth |-> <<"m", "i", "n", "o", "r", " ", "s", "i", "x", "t", "h">>,
     MajorSixth |-> <<"m", "a", "j", "o", "r", " ", "s", "i", "x", "t", "h">>,
     MinorSeventh |-> <<"m", "i", "n", "o", "r", " ", "s", "e", "v", "e", "n", "t", "h">>,
     MajorSeventh |-> <<"m", "a", "j", "o", "r", " ", "s", "e", "v", "e", "n", "t", "h">>,
     PerfectOctave |-> <<"p", "e", "r", "f", "e", "c", "t", " ", "o", "c", "t", "a", "v", "e">>,
     MinorNinth |-> <<"m", "i", "n", "o", "r", " ", "n", "i", "n", "t", "h">>,
     MajorNinth |-> <<"m", "a", "j", "o", "r", " ", "n", "i", "n", "t", "h">>,
     MinorTenth |-> <<"m", "i", "n", "o", "r", " ", "t", "e", "n", "t", "h">>,
     MajorTenth |-> <<"m", "a", "j", "o", "r", " ", "t", "e", "n", "t", "h">>,
     PerfectEleventh |-> <<"p", "e", "r", "f", "e", "c", "t", " ", "e", "l", "e", "v", "e", "n", "t", "h">>,
     DiminishedTwelfth |-> <<"d", "i", "m", "i", "n", "i", "s", "h", "e", "d", " ", "t", "w", "e", "l", "f", "t", "h">>,
     PerfectTwelfth |-> <<"p", "e", "r", "f", "e", "c", "t", " ", "t", "w", "e", "l", "f", "t", "h">>,
     MinorThirteenth |-> <<"m", "i", "n", "o", "r", " ", "t", "h", "i", "r", "t", "e", "e", "n", "t", "h">>,
     MajorThirteenth |-> <<"m", "a", "j", "o", "r", " ", "t", "h", "i", "r", "t", "e", "e", "n", "t", "h">>,
     MinorFourteenth |-> <<"m", "i", "n", "o", "r", " ", "f", "o", "u", "r", "t", "e", "e", "n", "t", "h">>,
     MajorFourteenth |-> <<"m", "a", "j", "o", "r", " ", "f", "o", "u", "r", "t", "e", "e", "n", "t", "h">>,
     PerfectFifteenth |-> <<"p", "e", "r", "f", "e", "c", "t", " ", "f", "i", "f", "t", "e", "e", "n", "t", "h">>,
     AugmentedUnison |-> <<"a", "u", "g", "m", "e", "n", "t", "e", "d", " ", "u", "n", "i", "s", "o", "n">>,
     Semitone |-> <<"s", "e", "m", "i", "t", "o", "n", "e">>,
     HalfTone |-> <<"h", "a", "l", "f", " ", "t", "o", "n", "e">>,
     HalfStep |-> <<"h", "a", "l", "f", " ", "s", "t", "e", "p">>,
     DiminishedThird |-> <<"d", "i", "m", "i", "n", "i", "s", "h", "e", "d", " ", "t", "h", "i", "r", "d">>,
     Tone |-> <<"t", "o", "n", "e">>,
     WholeTone |-> <<"w", "h", "o", "l", "e", " ", "t", "o", "n", "e">>,
     WholeStep |-> <<"w", "h", "o", "l", "e", " ", "s", "t", "e", "p">>,
     AugmentedSecond |-> <<"a", "u", "g", "m", "e", "n", "t", "e", "d", " ", "s", "e", "c", "o", "n", "d">>,
     Trisemitone |-> <<"t", "r", "i", "s", "e", "m", "i", "t", "o", "n", "e">>,
     DiminishedFourth |-> <<"d", "i", "m", "i", "n", "i", "s", "h", "e", "d", " ", "f", "o", "u", "r", "t", "h">>,
     AugmentedThird |-> <<"a", "u", "g", "m", "e", "n", "t", "e", "d", " ", "t", "h", "i", "r", "d">>,
     DiminishedFifth |-> <<"d", "i", "m", "i", "n", "i", "s", "h", "e", "d", " ", "f", "i", "f", "t", "h">>,
     AugmentedFourth |-> <<"a", "u", "g", "m", "e", "n", "t", "e", "d", " ", "f", "o", "u", "r", "t", "h">>,
     DiminishedSixth |-> <<"d", "i", "m", "i", "n", "i", "s", "h", "e", "d", " ", "s", "i", "x", "t", "h">>,
     AugmentedFifth |-> <<"a", "u", "g", "m", "e", "n", "t", "e", "d", " ", "f", "i", "f", "t", "h">>,
     DiminishedSeventh |-> <<"d", "i", "m", "i", "n", "i", "s", "h", "e", "d", " ", "s", "e", "v", "e", "n", "t", "h">>,
     AugmentedSixth |-> <<"a", "u", "g", "m", "e", "n", "t", "e", "d", " ", "s", "i", "x", "t", "h">>,
     DiminishedOctave |-> <<"d", "i", "m", "i", "n", "i", "s", "h", "e", "d", " ", "o", "c", "t", "a", "v", "e">>,
     AugmentedSeventh |-> <<"a", "u", "g", "m", "e", "n", "t", "e", "d", " ", "s", "e", "v", "e", "n", "t", "h">>,
     DiminishedNinth |-> <<"d", "i", "m", "i", "n", "i", "s", "h", "e", "d", " ", "n", "i", "n", "t", "h">>,
     AugmentedOctave |-> <<"a", "u", "g", "m", "e", "n", "t", "e", "d", " ", "o", "c", "t", "a", "v", "e">>,
     DiminishedTenth |-> <<"d", "i", "m", "i", "n", "i", "s", "h", "e", "d", " ", "t", "e", "n", "t", "h">>,
     AugmentedNinth |-> <<"a", "u", "g", "m", "e", "n", "t", "e", "d", " ", "n", "i", "n", "t", "h">>,
     AugmentedEleventh |-> <<"a", "u", "g", "m", "e", "n", "t", "e", "d", " ", "e", "l", "e", "v", "e", "n", "t", "h">>,
     DiminishedThirteenth |-> <<"d", "i", "m", "i", "n", "i", "s", "h", "e", "d", " ", "t", "h", "i", "r", "t", "e", "e", "n", "t", "h">>,
     Tritave |-> <<"t", "r", "i", "t", "a", "v", "e">>,
     AugmentedTwelfth |-> <<"a", "u", "g", "m", "e", "n", "t", "e", "d", " ", "t", "w", "e", "l", "f", "t", "h">>,
     DiminishedFourteenth |-> <<"d", "i", "m", "i", "n", "i", "s", "h", "e", "d", " ", "f", "o", "u", "r", "t", "e", "e", "n", "t", "h">>,
     AugmentedThirteenth |-> <<"a", "u", "g", "m", "e", "n", "t", "e", "d", " ", "t", "h", "i", "r", "t", "e", "e", "n", "t", "h">>,
     DiminishedFifteenth |-> <<"d", "i", "m", "i", "n", "i", "s", "h", "e", "d", " ", "f", "i", "f", "t", "e", "e", "n", "t", "h">>,
     AugmentedFourteenth |-> <<"a", "u", "g", "m", "e", "n", "t", "e", "d", " ", "f", "o", "u", "r", "t", "e", "e", "n", "t", "h">>,
     DoubleOctave |-> <<"d", "o", "u", "b", "l", "e", " ", "o", "c", "t", "a", "v", "e">>]

\* Name() for a name of ihypy/theory.py, next to the table's entry for it
NameInterval ==
    /\ pc = "call"
    /\ \E name \in DOMAIN interval_words :
           /\ request' = [op |-> "named interval", name |-> name,
                          key |-> interval_words[name]]
           /\ ret' = Returned(NamedInterval(class_of(name)), <<>>)
    /\ pc' = "done"
    /\ heap' = NoObjects

TheoryNext ==
    \/ ConstructScale
    \/ IntervalEquals
    \/ NoteEquals
    \/ TransposeAndBack
    \/ InvertTwice
    \/ ChangeCallersList
    \/ ChangeIntervalsList
    \/ ChangeIncrementList
    \/ AddIntervals
    \/ Arpeggiate
    \/ NameInterval

TheorySpec == Init /\ [][TheoryNext]_vars

-----------------------------------------------------------------------------
(* One MusicalSystem called several times, with a scale and a chord that   *)
(* the caller keeps and passes in again.                                   *)

MaxCalls == 2

\* what __init__ leaves in a system and in the objects it holds
attributes(self) ==
    [note_notation_system |-> "InternationalPitchNotation",
     interval_notation_system |-> "QualityNumberSystem",
     tuning_system |-> tuning_system(self),
     pitch_standard_notation |-> pitch_standard_notation,
     pitch_standard_frequency |-> pitch_standard_frequency,
     valid_chord_pattern |-> <<>>,
     pitch_conversion |-> pitch_conversion,
     accidental_conversion |-> accidental_conversion,
     quality_number_conversion |-> quality_number_conversion,
     interval_ratio |-> IF tuning_system(self) = "FiveLimitTuning" THEN interval_ratio
                        ELSE <<>>]

\* the value a call gives for the objects as they are now
call_outcome(state, call) ==
    CASE call.op = "create_note" -> create_note(state.system, call.note.text)
      [] call.op = "create_scale" -> create_scale(state.system, state.scale, call.note)
      [] call.op = "create_interval" ->
             create_interval(state.system, call.interval, call.note)
      [] call.op = "create_chord" -> create_chord(state.system, state.chord, call.note)

\* create_scale takes the increments out of the scale as it goes
perform_consuming(state, call) ==
    [state |-> IF call.op = "create_scale"
               THEN [state EXCEPT !.scale.increment = <<>>]
               ELSE state,
     outcome |-> call_outcome(state, call)]

\* a call: the four methods assign to no attribute and append to lists of
\* their own only, so the objects are after the call as they were before
perform(state, call) == [state |-> state, outcome |-> call_outcome(state, call)]

SessionScales == {Scale("MajorScale", 1), Scale("DorianScale", 2), Scale("LocrianScale", 0)}
SessionChords ==
    {MajorTriad,
     SemitoneChord(<<>>),
     SemitoneChord(<<get_interval(<<"M", "3">>).value, get_interval(<<"P", "5">>).value>>)}
SessionNotes == {PyStr(<<"A", "4">>), PyStr(<<"C", "#", "4">>), PyStr(<<"H", "4">>)}
SessionStarts == {PyStr(<<"A", "4">>), PyStr(<<"H", "4">>), Note(Real(100, 1, 0))}
SessionIntervals ==
    {PyStr(<<"P", "5">>), PyStr(<<"M", "3">>), PyStr(<<"M", "5">>),
     SemitoneInterval(PyInt(-5))}

\* the objects of a session, what was given at its start, and the calls made
Session(self, scale, chord) ==
    [system |-> self, attributes |-> attributes(self), scale |-> scale, chord |-> chord,
     given |-> [scale |-> scale, chord |-> chord], journal |-> <<>>]

NewSession ==
    /\ pc = "call"
    /\ \E m \in MusicalSystems, scale \in SessionScales, chord \in SessionChords :
           heap' = Session(m, scale, chord)
    /\ request' = NoRequest
    /\ ret' = NoOutcome
    /\ pc' = "session"

\* the call is made, and written down with what it gave
made(session, call) ==
    Bind(perform([session EXCEPT !.journal = <<>>], call), LAMBDA done :
        [done.state EXCEPT
             !.journal = Append(session.journal, [call |-> call, outcome |-> done.outcome])])

SessionCreateNote ==
    /\ pc = "session"
    /\ Len(heap.journal) < MaxCalls
    /\ \E note \in SessionNotes :
           /\ request' = [op |-> "create_note", note |-> note]
           /\ heap' = made(heap, request')
    /\ ret' = heap'.journal[Len(heap'.journal)].outcome
    /\ pc' = "session"

SessionCreateScale ==
    /\ pc = "session"
    /\ Len(heap.journal) < MaxCalls
    /\ \E note \in SessionStarts :
           /\ request' = [op |-> "create_scale", note |-> note]
           /\ heap' = made(heap, request')
    /\ ret' = heap'.journal[Len(heap'.journal)].outcome
    /\ pc' = "session"

SessionCreateInterval ==
    /\ pc = "session"
    /\ Len(heap.journal) < MaxCalls
    /\ \E interval \in SessionIntervals, note \in {PyNone, PyStr(<<"A", "4">>)} :
           /\ request' = [op |-> "create_interval", interval |-> interval, note |-> note]
           /\ heap' = made(heap, request')
    /\ ret' = heap'.journal[Len(heap'.journal)].outcome
    /\ pc' = "session"

SessionCreateChord ==
    /\ pc = "session"
    /\ Len(heap.journal) < MaxCalls
    /\ \E note \in SessionStarts \cup {PyNone} :
           /\ request' = [op |-> "create_chord", note |-> note]
           /\ heap' = made(heap, request')
    /\ ret' = heap'.journal[Len(heap'.journal)].outcome
    /\ pc' = "session"

SessionNext ==
    \/ NewSession
    \/ SessionCreateNote
    \/ SessionCreateScale
    \/ SessionCreateInterval
    \/ SessionCreateChord

SessionSpec == Init /\ [][SessionNext]_vars

-----------------------------------------------------------------------------
(* The grammar of a note name, as the specification words it.              *)

Done(op) == pc = "done" /\ request.op = op

SignedDigitRun(s) ==
    \E k \in 0..1 :
        /\ Len(s) > k
        /\ k = 1 => s[1] \in {"+", "-"}
        /\ \A i \in (k + 1)..Len(s) : s[i] \in Digit

\* the lengths an accidental of s can have: a spelling, then the octave
AccidentalLengths(s) ==
    {k \in 0..(Len(s) - 1) :
        /\ SubSeq(s, 2, k + 1) \in DOMAIN accidental_conversion
        /\ SignedDigitRun(SubSeq(s, k + 2, Len(s)))}

WellFormed(s) ==
    /\ s # <<>>
    /\ s[1] \in {"A", "B", "C", "D", "E", "F", "G"}
    /\ AccidentalLengths(s) # {}

LetterOffset(c) ==
    CASE c = "C" -> 0 [] c = "D" -> 2 [] c = "E" -> 4 [] c = "F" -> 5
      [] c = "G" -> 7 [] c = "A" -> 9 [] c = "B" -> 11

\* 12 * octave + letter offset + accidental offset, the accidental being all
\* that stands between the letter and the octave
Step(s) ==
    LET k == CHOOSE k \in AccidentalLengths(s) : TRUE
    IN  12 * int(SubSeq(s, k + 2, Len(s))) + LetterOffset(s[1])
        + accidental_conversion[SubSeq(s, 2, k + 1)]

-----------------------------------------------------------------------------
\* C1: validate_notation(s) is true exactly when s is, with nothing left
\* over, a pitch letter A-G, one accidental spelling of the table (the empty
\* one included) and an optionally signed run of one or more digits.
C1_ValidateIsTheGrammar ==
    Done("validate_notation") =>
        /\ ret.exc = "None"
        /\ ret.value = WellFormed(request.notation)

\* validate_notation has accepted a name with a worded accidental and a
\* signed octave
C1_Witness ==
    /\ Done("validate_notation")
    /\ request.notation = <<"B", "#", "-", "1">>
    /\ ret.value = TRUE

\* C2: for valid a and b, get_interval_between(a, b) is a semitone interval
\* whose relation is step(b) - step(a); C4 to C5 is 12, A4 to A4 is 0, C4 to
\* G4 is 7, C0 to Cbb4 is 46.
C2_IntervalIsStepDifference ==
    (/\ Done("get_interval_between")
     /\ WellFormed(request.notation)
     /\ WellFormed(request.to_notation)) =>
        /\ ret.exc = "None"
        /\ ret.value.unit = "semitones"
        /\ ret.value.relation = PyInt(Step(request.to_notation) - Step(request.notation))
        /\ (request.notation = <<"C", "4">> /\ request.to_notation = <<"C", "5">>)
               => ret.value.relation = PyInt(12)
        /\ (request.notation = <<"A", "4">> /\ request.to_notation = <<"A", "4">>)
               => ret.value.relation = PyInt(0)
        /\ (request.notation = <<"C", "4">> /\ request.to_notation = <<"G", "4">>)
               => ret.value.relation = PyInt(7)
        /\ (request.notation = <<"C", "0">> /\ request.to_notation = <<"C", "b", "b", "4">>)
               => ret.value.relation = PyInt(46)

\* the interval from C0 up to the double flat Cbb4 has been returned
C2_Witness ==
    /\ Done("get_interval_between")
    /\ request.notation = <<"C", "0">>
    /\ request.to_notation = <<"C", "b", "b", "4">>
    /\ ret.exc = "None"
    /\ ret.value.relation = PyInt(46)

\* C3: in both systems create_note(n), for a valid n, returns a note whose
\* frequency is 440 times the tuning ratio of the interval from A4 to n, and
\* create_note("A4") has the frequency 440 exactly.
C3_NoteIsStandardTimesRatio ==
    (Done("create_note") /\ WellFormed(request.notation)) =>
        LET between == get_interval_between(<<"A", "4">>, request.notation)
            ratio == get_frequency_ratio(tuning_system(request.system),
                                         between.value.relation)
        IN  /\ ret.exc = "None"
            /\ between.value.relation = PyInt(Step(request.notation) - 57)
            /\ ret.value.frequency = RealMul(Real(440, 1, 0), ratio.value)
            /\ request.notation = <<"A", "4">> => ret.value.frequency = Real(440, 1, 0)

\* the Ptolemaic system has created G4, a whole tone below the standard
C3_Witness ==
    /\ Done("create_note")
    /\ request.system = "PtolemaicSystem"
    /\ request.notation = <<"G", "4">>
    /\ ret.exc = "None"
    /\ ret.value.frequency = Real(440 * 8, 9, 0)

\* the string a failed call has rejected, and the name of the notation
\* system that rejected it
Offending ==
    IF request.op = "get_interval_between" /\ IPN_validate_notation(request.notation)
    THEN request.to_notation ELSE request.notation
RejectedBy ==
    IF request.op = "get_interval" THEN "Quality Number Notation"
    ELSE "International Pitch Notation"

\* C4: a NotationError raised by create_note, get_interval_between or
\* get_interval carries the rejected string as its notation and the name of
\* the rejecting notation system as its notation_system.
C4_ErrorCarriesStringAndSystem ==
    (pc = "done" /\ request.op \in {"create_note", "get_interval_between", "get_interval"}
     /\ ret.exc = "NotationError") =>
        /\ ret.notation.class = "str"
        /\ ret.notation.text = Offending
        /\ str(ret.notation_system) = RejectedBy

\* C5: get_interval_between(a, b) raises a NotationError whenever a or b
\* fails validate_notation, before the step of either string is computed,
\* and returns no interval.
C5_InvalidRaisesFirst ==
    (/\ Done("get_interval_between")
     /\ ~(WellFormed(request.notation) /\ WellFormed(request.to_notation))) =>
        /\ ret.exc = "NotationError"
        /\ ret.computed = <<>>
        /\ ret.value = None

\* a valid first notation and a second one without its octave were given
C5_Witness ==
    /\ Done("get_interval_between")
    /\ request.notation = <<"C", "4">>
    /\ request.to_notation = <<"C", "#">>
    /\ ret.exc = "NotationError"

-----------------------------------------------------------------------------
(* The accidentals as the specification lists them: for each category the  *)
(* musical symbol, the ASCII symbol, the word and the abbreviation.        *)

ListedSpellings ==
    (-2 :> {<<"U+1D12B">>, <<"b", "b">>, <<"d", "o", "u", "b", "l", "e", "_", "f", "l", "a", "t">>, <<"d", "f">>}) @@
    (-1 :> {<<"U+266D">>, <<"b">>, <<"f", "l", "a", "t">>, <<"f">>}) @@
    (0 :> {<<"U+266E">>, <<>>, <<"n", "a", "t", "u", "r", "a", "l">>, <<"n">>}) @@
    (1 :> {<<"U+266F">>, <<"#">>, <<"s", "h", "a", "r", "p">>, <<"s">>}) @@
    (2 :> {<<"U+1D12A">>, <<"x">>, <<"d", "o", "u", "b", "l", "e", "_", "s", "h", "a", "r", "p">>, <<"d", "s">>})

\* s is a pitch letter, the spelling sp and an octave
SpelledWith(s, sp) ==
    /\ Len(s) > Len(sp) + 1
    /\ s[1] \in {"A", "B", "C", "D", "E", "F", "G"}
    /\ SubSeq(s, 2, Len(sp) + 1) = sp
    /\ SignedDigitRun(SubSeq(s, Len(sp) + 2, Len(s)))

\* a and b are the same letter and octave with two spellings of one category
SameNote(a, b) ==
    \E c \in DOMAIN ListedSpellings :
        \E sa \in ListedSpellings[c], sb \in ListedSpellings[c] :
            /\ SpelledWith(a, sa)
            /\ SpelledWith(b, sb)
            /\ a[1] = b[1]
            /\ SubSeq(a, Len(sa) + 2, Len(a)) = SubSeq(b, Len(sb) + 2, Len(b))

\* C6: every listed spelling of each of the five accidental categories is
\* accepted by validate_notation, and two spellings of one category on the
\* same letter and octave are at distance 0.
C6_EverySpellingAccepted ==
    /\ (Done("validate_notation")
        /\ \E c \in DOMAIN ListedSpellings :
               \E sp \in ListedSpellings[c] : SpelledWith(request.notation, sp))
           => ret.value = TRUE
    /\ (Done("get_interval_between") /\ SameNote(request.notation, request.to_notation))
           => (ret.exc = "None" /\ ret.value.relation = PyInt(0))

IsPrefix(a, b) == Len(a) <= Len(b) /\ SubSeq(b, 1, Len(a)) = a

\* the spellings of one category that are a prefix of a spelling of another
PrefixPairs ==
    {p \in (DOMAIN accidental_conversion) \X (DOMAIN accidental_conversion) :
        /\ accidental_conversion[p[1]] # accidental_conversion[p[2]]
        /\ IsPrefix(p[1], p[2])}

\* C7 as stated: no accidental spelling of one category is a prefix of a
\* spelling of another category, in the table any call works with.
C7_NoPrefixAcrossCategories == pc \in {"call", "done"} => PrefixPairs = {}

\* C7 as amended: the only spellings that are a prefix of a spelling of
\* another category are the empty natural and "b", the flat, a prefix of
\* "bb", the double flat; a string that validate_notation accepts has
\* exactly one reading of its accidental.
C7_PrefixesAreHarmless ==
    /\ PrefixPairs \subseteq ({<<>>} \X (DOMAIN accidental_conversion))
                             \cup {<< <<"b">>, <<"b", "b">> >>}
    /\ (Done("validate_notation") /\ ret.value = TRUE)
           => Cardinality(AccidentalLengths(request.notation)) = 1

\* validate_notation has accepted the double flat Cbb4, whose accidental
\* begins with the flat "b"
C7_Witness ==
    /\ Done("validate_notation")
    /\ request.notation = <<"C", "b", "b", "4">>
    /\ ret.value = TRUE
    /\ AccidentalLengths(request.notation) = {2}

-----------------------------------------------------------------------------
\* C8: get_interval(s) returns the table value of s when s is a key of the
\* table, and raises a NotationError for every other string.
C8_ExactLookup ==
    Done("get_interval") =>
        IF request.notation \in DOMAIN quality_number_conversion
        THEN /\ ret.exc = "None"
             /\ ret.value = SemitoneInterval(quality_number_conversion[request.notation])
        ELSE /\ ret.exc = "NotationError"
             /\ ret.notation.text = request.notation

\* get_interval has rejected the key "P5" followed by a space
C8_Witness ==
    /\ Done("get_interval")
    /\ request.notation = <<"P", "5", " ">>
    /\ ret.exc = "NotationError"

\* the three spellings of a quality with a number
Spellings ==
    [q \in AllQualities, n \in AllNumbers |->
        {q[1] \o <<" ">> \o n[1], title(q[1] \o <<" ">> \o n[1]), q[2] \o n[2]}]
SpellingsOf(q, n) == Spellings[q, n]

\* unison, fourth, fifth, octave take d, P, A; the others take d, m, M, A
Pairs(q, n) ==
    IF n[2] \in {<<"1">>, <<"4">>, <<"5">>, <<"8">>}
    THEN q[2] \in {<<"d">>, <<"P">>, <<"A">>}
    ELSE q[2] \in {<<"d">>, <<"m">>, <<"M">>, <<"A">>}

\* the keys of the table that spell a quality with a number it does not take
UnpairedKeys ==
    UNION {SpellingsOf(p[1], p[2]) \cap DOMAIN quality_number_conversion :
               p \in {x \in AllQualities \X AllNumbers : ~Pairs(x[1], x[2])}}

\* C9: a perfect-class number is a key only with d, P or A and the other
\* numbers only with d, m, M or A, so get_interval rejects every other
\* quality with a number.
C9_ClosedKeySet ==
    /\ UnpairedKeys = {}
    /\ (Done("get_interval")
        /\ \E q \in AllQualities, n \in AllNumbers :
               ~Pairs(q, n) /\ request.notation \in SpellingsOf(q, n))
           => ret.exc = "NotationError"

\* get_interval has rejected "M5"
C9_Witness ==
    /\ Done("get_interval")
    /\ request.notation = <<"M", "5">>
    /\ ret.exc = "NotationError"

\* the conventional count of semitones of a quality with a number
Conventional(q, n) ==
    LET low == CASE n[2] = <<"1">> -> 0 [] n[2] = <<"2">> -> 1 [] n[2] = <<"3">> -> 3
                 [] n[2] = <<"4">> -> 5 [] n[2] = <<"5">> -> 7 [] n[2] = <<"6">> -> 8
                 [] n[2] = <<"7">> -> 10 [] n[2] = <<"8">> -> 12
        high == IF n[2] \in {<<"1">>, <<"4">>, <<"5">>, <<"8">>} THEN low ELSE low + 1
    IN  CASE q[2] = <<"d">> -> low - 1
          [] q[2] \in {<<"m">>, <<"P">>} -> low
          [] q[2] = <<"M">> -> high
          [] q[2] = <<"A">> -> high + 1

\* the three spellings of every pair are keys and have one value
SpellingsAgree ==
    \A q \in AllQualities, n \in AllNumbers :
        Pairs(q, n) =>
            \A k \in SpellingsOf(q, n) :
                /\ k \in DOMAIN quality_number_conversion
                /\ PyEq(quality_number_conversion[k],
                        quality_number_conversion[q[2] \o n[2]])

\* C10: the relation get_interval returns for a quality with a number is a
\* whole number of semitones, the conventional count, and it is the same
\* for the full-word, the title-cased and the abbreviated spelling.
C10_WholeConventionalCount ==
    /\ SpellingsAgree
    /\ (Done("get_interval") /\ ret.exc = "None") =>
           \A q \in AllQualities, n \in AllNumbers :
               request.notation \in SpellingsOf(q, n) =>
                   /\ IsWhole(ret.value.relation)
                   /\ PyEq(ret.value.relation, PyInt(Conventional(q, n)))

\* get_interval has returned the 8 semitones of "minor sixth", 8.5 - 0.5
C10_Witness ==
    /\ Done("get_interval")
    /\ request.notation = <<"m", "i", "n", "o", "r", " ", "s", "i", "x", "t", "h">>
    /\ ret.exc = "None"
    /\ ret.value.relation = PyFloat(16)

-----------------------------------------------------------------------------
(* The two tuning systems on doubles.                                      *)

One == float(1)
Two == float(2)
FiveLimit(d) == get_frequency_ratio_double("FiveLimitTuning", d)
EqualTempered(d) == get_frequency_ratio_double("TwelveToneEqualTemperament", d)

\* C11: FiveLimitTuning.get_frequency_ratio(0) is 1 and (12) is 2; for d >= 0
\* the ratio of d is 2^(d div 12) times entry d mod 12 of the table; for
\* every d the ratio of d is 1 / the ratio of -d.
C11_FiveLimitReciprocal ==
    (Done("get_frequency_ratio") /\ request.system = "FiveLimitTuning") =>
        LET d == request.delta_half_step
        IN  /\ d = 0 => ret.value = One
            /\ d = 12 => ret.value = Two
            /\ d >= 0 => ret.value = DMul(float(IntPow(2, d \div 12)),
                                          interval_ratio_double(d % 12))
            /\ ret.value = DDiv(One, FiveLimit(0 - d))

\* C12: TwelveToneEqualTemperament.get_frequency_ratio(d) times
\* get_frequency_ratio(-d) is 1 for every integer d, and
\* get_frequency_ratio(12) is 2.0.
C12_EqualTemperedInverse ==
    (Done("get_frequency_ratio") /\ request.system = "TwelveToneEqualTemperament") =>
        LET d == request.delta_half_step
        IN  /\ DMul(ret.value, EqualTempered(0 - d)) = One
            /\ d = 12 => ret.value = Two

\* C13: for every valid notation n that is not a whole number of octaves
\* from A4, PtolemaicSystem().create_note(n) and
\* WesternClassicalSystem().create_note(n) differ in frequency, in exact
\* arithmetic and, for the ratios computed on doubles, in floats; for "A4"
\* both give 440.
C13_TuningsDiverge ==
    /\ (Done("create_note") /\ WellFormed(request.notation)) =>
           LET other == create_note(IF request.system = "PtolemaicSystem"
                                    THEN "WesternClassicalSystem"
                                    ELSE "PtolemaicSystem", request.notation)
           IN  /\ ret.exc = "None" /\ other.exc = "None"
               /\ (Step(request.notation) - 57) % 12 # 0 =>
                      ret.value.frequency # other.value.frequency
               /\ request.notation = <<"A", "4">> =>
                      /\ ret.value.frequency = Real(440, 1, 0)
                      /\ other.value.frequency = Real(440, 1, 0)
    /\ Done("get_frequency_ratio") =>
           LET d == request.delta_half_step
           IN  /\ d % 12 # 0 => DMul(float(440), EqualTempered(d)) # DMul(float(440), FiveLimit(d))
               /\ d = 0 => DMul(float(440), ret.value) = float(440)

\* the Ptolemaic system has created C#4, a minor sixth below A4: 440 * 5/8
C13_Witness ==
    /\ Done("create_note")
    /\ request.system = "PtolemaicSystem"
    /\ request.notation = <<"C", "#", "4">>
    /\ ret.exc = "None"
    /\ ret.value.frequency = Real(275, 1, 0)
    /\ create_note("WesternClassicalSystem", request.notation).value.frequency
           = Real(440, 1, -16)

-----------------------------------------------------------------------------
(* Scales, intervals and chords built on a note.                           *)

\* the note a call starts from is a Note, or a notation that is valid
GoodStart(note) == ~IsStr(note) \/ WellFormed(note.text)
\* the frequency of that note
StartFrequency(self, note) ==
    IF IsStr(note) THEN create_note(self, note.text).value.frequency ELSE note.frequency
\* the tuning ratio of a number of half steps
Ratio(self, delta_unit) == get_frequency_ratio(tuning_system(self), delta_unit).value

\* C14: create_scale(scale, start), for a Note or a valid notation as start,
\* returns len(scale.increment) + 1 notes; the first has the frequency of the
\* start, and each later one the frequency of the note before it times the
\* tuning ratio of the increment between them.
C14_ScaleFoldsIncrements ==
    (Done("create_scale") /\ GoodStart(request.note)) =>
        /\ ret.exc = "None"
        /\ Len(ret.value) = Len(request.scale.increment) + 1
        /\ ret.value[1].frequency = StartFrequency(request.system, request.note)
        /\ \A i \in 1..Len(request.scale.increment) :
               ret.value[i + 1].frequency
                   = RealMul(ret.value[i].frequency,
                             Ratio(request.system, request.scale.increment[i]))

\* the Ptolemaic system has built a major scale of one octave on A4: the
\* second note is a 9/8 whole tone above 440, the last one is not 880
C14_Witness ==
    /\ Done("create_scale")
    /\ request.system = "PtolemaicSystem"
    /\ request.scale = Scale("MajorScale", 1)
    /\ request.note = PyStr(<<"A", "4">>)
    /\ ret.exc = "None"
    /\ Len(ret.value) = 8
    /\ ret.value[2].frequency = Real(495, 1, 0)
    /\ ret.value[8].frequency # Real(880, 1, 0)

\* the call is create_interval with a key of the interval table
IntervalOfTable ==
    /\ Done("create_interval")
    /\ IsStr(request.interval)
    /\ request.interval.text \in DOMAIN quality_number_conversion

\* C15: in both systems and for every key k of the interval table,
\* create_interval(k) with no tonic returns the parsed Interval, and
\* create_interval(k, tonic) with a Note or a valid notation as tonic returns
\* two groups of one note: the tonic, and a note of the tonic's frequency times
\* the tuning ratio of the interval's relation.
C15_IntervalOnTonic ==
    (IntervalOfTable /\ (request.note = PyNone \/ GoodStart(request.note))) =>
        /\ ret.exc = "None"
        /\ IF request.note = PyNone
           THEN ret.value
                    = SemitoneInterval(quality_number_conversion[request.interval.text])
           ELSE /\ Len(ret.value) = 2
                /\ Len(ret.value[1]) = 1
                /\ Len(ret.value[2]) = 1
                /\ ret.value[1][1].frequency
                       = StartFrequency(request.system, request.note)
                /\ ret.value[2][1].frequency
                       = RealMul(StartFrequency(request.system, request.note),
                                 Ratio(request.system,
                                       quality_number_conversion[request.interval.text]))

\* C16: create_chord(chord, tonic) with a Chord object and a Note or a valid
\* notation as tonic returns len(chord.intervals) + 1 groups of one note: the
\* tonic, then for the i-th interval of the chord a note of the tonic's
\* frequency times the tuning ratio of its relation; with no tonic it returns
\* the Chord.
C16_ChordOnTonic ==
    (/\ Done("create_chord")
     /\ ~IsStr(request.chord)
     /\ (request.note = PyNone \/ GoodStart(request.note))) =>
        /\ ret.exc = "None"
        /\ IF request.note = PyNone THEN ret.value = request.chord
           ELSE /\ Len(ret.value) = Len(request.chord.intervals) + 1
                /\ \A i \in 1..Len(ret.value) : Len(ret.value[i]) = 1
                /\ ret.value[1][1].frequency
                       = StartFrequency(request.system, request.note)
                /\ \A i \in 1..Len(request.chord.intervals) :
                       ret.value[i + 1][1].frequency
                           = RealMul(StartFrequency(request.system, request.note),
                                     Ratio(request.system,
                                           request.chord.intervals[i].relation))

-----------------------------------------------------------------------------
(* The scales, intervals and notes of ihypy/theory.py.                     *)

\* the one-octave pattern over and over, n times
Repeats(increment, pattern, n) ==
    /\ Len(increment) = Len(pattern) * n
    /\ \A i \in 1..Len(increment) : increment[i] = pattern[((i - 1) % Len(pattern)) + 1]

\* a whole number as the words have it: 2 and 2.0 are, 1.5 and "2" are not
WholeNumber(x) == "true" \in DOMAIN x \/ ("twice" \in DOMAIN x /\ IsWhole(x))
NumberValue(x) == IF "true" \in DOMAIN x THEN IntValue(x) ELSE x.twice \div 2

\* C17 as stated: a scale built with octaves that is not a whole number, or is
\* below 1, fails with IntervalLengthError; with a whole number octaves >= 1
\* its increment is the one-octave pattern octaves times.
C17_WholeOctaves ==
    Done("SemitoneScale") =>
        IF WholeNumber(request.octaves) /\ NumberValue(request.octaves) >= 1
        THEN /\ ret.exc = "None"
             /\ Repeats(ret.value.increment, semitone_scale_increment[request.class],
                        NumberValue(request.octaves))
        ELSE ret.exc = "IntervalLengthError" /\ ret.value = None

\* C17: a scale built with octaves that is not an int, or is below 1, fails
\* with IntervalLengthError and yields no scale; with an int octaves >= 1 its
\* increment is the one-octave pattern octaves times, 7 * octaves steps.
C17_IntOctaves ==
    Done("SemitoneScale") =>
        IF isinstance_int(request.octaves) /\ IntValue(request.octaves) >= 1
        THEN /\ ret.exc = "None"
             /\ Repeats(ret.value.increment, semitone_scale_increment[request.class],
                        IntValue(request.octaves))
             /\ Len(ret.value.increment) = 7 * IntValue(request.octaves)
        ELSE ret.exc = "IntervalLengthError" /\ ret.value = None

\* a harmonic minor scale of two octaves has been built: 14 steps
C17_Witness ==
    /\ Done("SemitoneScale")
    /\ request.class = "HarmonicMinorScale"
    /\ request.octaves = PyInt(2)
    /\ ret.exc = "None"
    /\ ret.value.increment = <<2, 1, 2, 2, 1, 3, 1, 2, 1, 2, 2, 1, 3, 1>>

\* C18: two Intervals are equal exactly when they have the same unit and the
\* same relation, whatever classes they are of; an Interval is not equal to a
\* value that is no Interval, on either side of ==; an Interval is equal to
\* itself, and self == other is other == self.
C18_IntervalEquality ==
    Done("Interval.__eq__") =>
        /\ ret.value = (/\ issubclass_Interval(request.other)
                        /\ request.self.unit = request.other.unit
                        /\ PyEq(request.self.relation, request.other.relation))
        /\ request.other = request.self => ret.value
        /\ issubclass_Interval(request.other) =>
               ret.value = Interval_eq(request.other, request.self)

\* MinorSecond() has been compared with SemitoneInterval(1), and is equal
C18_Witness ==
    /\ Done("Interval.__eq__")
    /\ request.self = NamedInterval("MinorSecond")
    /\ request.other = IntervalObject("SemitoneInterval", PyInt(1), "semitones")
    /\ ret.value

\* C19: two Notes are equal exactly when their frequencies are equal.
C19_NotesEqualByFrequency ==
    Done("Note.__eq__") =>
        ret.value = (heap[request.self].frequency = heap[request.other].frequency)

\* x is y to within 2^-50 of y
Close(x, y) ==
    /\ x.neg = y.neg
    /\ \E e \in {Min({x.e, y.e})} :
       \E f \in {<<BigShl(x.m, x.e - e), BigShl(y.m, y.e - e)>>} :
       \E d \in {IF BigLess(f[1], f[2]) THEN BigSub(f[2], f[1]) ELSE BigSub(f[1], f[2])} :
           ~BigLess(f[2], BigShl(d, 50))

\* transpose and invert return a Note that was not there before, and leave
\* the frequency of the note they are called on as it was
NewNotes ==
    /\ ret.value.once # request.note
    /\ ret.value.twice \notin {request.note, ret.value.once}
    /\ heap[request.note].frequency = request.frequency

\* C20 as stated: note.transpose(r).transpose(1/r) and
\* note.invert(about).invert(about) have the frequency of note.
C20_RoundTripExact ==
    (Done("transpose") \/ Done("invert")) =>
        heap[ret.value.twice].frequency = request.frequency

\* C20: for a nonzero ratio r, note.transpose(r).transpose(1/r) has the
\* frequency of note to within 2^-50 of it, and so has
\* note.invert(about).invert(about); about.invert(about) has the frequency of
\* about; each call returns a new Note and leaves the original's frequency.
C20_RoundTripClose ==
    /\ Done("transpose") =>
           /\ NewNotes
           /\ Close(heap[ret.value.twice].frequency, request.frequency)
    /\ Done("invert") =>
           /\ NewNotes
           /\ Close(heap[ret.value.twice].frequency, request.frequency)
           /\ request.about = request.note =>
                  heap[ret.value.once].frequency = heap[request.about].frequency

\* Note(440).transpose(49).transpose(1 / 49) is 439.99999999999994
C20_Witness ==
    /\ Done("transpose")
    /\ request.frequency = float(440)
    /\ request.frequency_ratio = float(49)
    /\ heap[ret.value.twice].frequency # float(440)
    /\ heap[ret.value.twice].frequency
           = [neg |-> FALSE, m |-> <<16383, 16383, 16383, 1759>>, e |-> -44]

-----------------------------------------------------------------------------
(* Calls made one after another on one system.                             *)

-----------------------------------------------------------------------------
(* More of ihypy/theory.py: the lists of chords and scales, the sum of     *)
(* intervals, arpeggios, the modes and the names of the intervals.         *)

\* C22: a chord or a scale owns its list: after an append to the list the
\* chord was built from, or to the list read from chord.intervals, the
\* chord's intervals are the ones it was built with; and after an append to
\* the list read from scale.increment the scale's increments are the pattern
\* of its class, octaves times.
C22_ListsOwned ==
    /\ Done("SemitoneChord") => heap[Chord_intervals(ret.value)] = request.intervals
    /\ Done("scale.increment") =>
           heap[Scale_increment(ret.value)]
               = ListRepeat(semitone_scale_increment[request.class],
                            IntValue(request.octaves))

\* C23: SemitoneInterval(a) + SemitoneInterval(b) returns a SemitoneInterval
\* of relation a + b, and adding a value that is not a semitone interval
\* fails with an error and returns nothing.
C23_SumOfIntervals ==
    Done("SemitoneInterval.__add__") =>
        IF issubclass_Interval(request.other) /\ request.other.unit = "semitones"
        THEN /\ ret.exc = "None"
             /\ ret.value.unit = "semitones"
             /\ ret.value.relation = PyAdd(request.self.relation, request.other.relation)
        ELSE ret.exc # "None" /\ ret.value = None

\* the semitones of the intervals of the chord returned
Relations == [i \in 1..Len(ret.value.intervals) |-> IntValue(ret.value.intervals[i].relation)]

\* C24: for a scale of octaves >= 1 and a strictly ascending list of degrees
\* from 1..7, the intervals of the chord arpeggiate returns ascend strictly
\* by relation, so no two are the same, none is the unison, and where degree
\* 1 is in the list the last is 12 * octaves semitones and there is one
\* interval for each degree of each octave.
C24_ArpeggioAscends ==
    Done("arpeggiate") =>
        /\ \A i \in 1..(Len(Relations) - 1) : Relations[i] < Relations[i + 1]
        /\ \A i \in 1..Len(Relations) : Relations[i] # 0
        /\ Len(Relations) = request.octaves * Len(request.degrees)
        /\ (request.degrees # <<>> /\ request.degrees[1] = 1) =>
               Relations[Len(Relations)] = 12 * request.octaves

\* the degrees 1, 3, 5 of a major scale of one octave give 4, 7 and 12
C24_Witness ==
    /\ Done("arpeggiate")
    /\ request.class = "MajorScale"
    /\ request.octaves = 1
    /\ request.degrees = <<1, 3, 5>>
    /\ Relations = <<4, 7, 12>>

\* the seven modern modes in their order, and a list rotated left
Modes ==
    <<"IonianScale", "DorianScale", "PhrygianScale", "LydianScale", "MixolydianScale",
      "AeolianScale", "LocrianScale">>
Rotated(list, k) == [i \in 1..Len(list) |-> list[((i - 1 + k) % Len(list)) + 1]]
OneOctave(increment) == SubSeq(increment, 1, 7)

\* C25: the one-octave pattern of the k-th mode is [2,2,1,2,2,2,1] rotated
\* left by k - 1, the major and the natural minor scale have the Ionian and
\* the Aeolian pattern, and the increments of a scale of any class built with
\* n octaves sum to 12 * n.
C25_ModesAreRotations ==
    (Done("SemitoneScale") /\ ret.exc = "None") =>
        /\ sum(ret.value.increment) = 12 * IntValue(request.octaves)
        /\ \A k \in 1..7 :
               request.class = Modes[k] =>
                   OneOctave(ret.value.increment) = Rotated(<<2, 2, 1, 2, 2, 2, 1>>, k - 1)
        /\ request.class = "MajorScale" =>
               OneOctave(ret.value.increment) = <<2, 2, 1, 2, 2, 2, 1>>
        /\ request.class = "NaturalMinorScale" =>
               OneOctave(ret.value.increment) = Rotated(<<2, 2, 1, 2, 2, 2, 1>>, 5)

\* a Lydian scale of two octaves has been built
C25_Witness ==
    /\ Done("SemitoneScale")
    /\ request.class = "LydianScale"
    /\ request.octaves = PyInt(2)
    /\ ret.exc = "None"
    /\ ret.value.increment = <<2, 2, 2, 1, 2, 2, 1, 2, 2, 2, 1, 2, 2, 1>>

\* C26: a name that is both a key of the interval table and a class or an
\* alias of ihypy/theory.py is the same number of semitones in both, and an
\* alias is the interval it was first bound to.
C26_NamesAgree ==
    Done("named interval") =>
        /\ request.key \in DOMAIN quality_number_conversion =>
               PyEq(quality_number_conversion[request.key], ret.value.relation)
        /\ ret.value = NamedInterval(class_of_first(request.name))

-----------------------------------------------------------------------------
(* Distances that are split into steps, and octaves.                       *)

\* the half steps from the start of a scale to its note k + 1
Cumulative(increment, k) == PyInt(sum([i \in 1..k |-> IntValue(increment[i])]))
Twice(frequency) == RealMul(Real(2, 1, 0), frequency)

\* C27: in both systems the note k + 1 of a scale has the frequency of the
\* start times the tuning ratio of the sum of the first k increments, and
\* the note a full octave of seven steps after a note has twice its
\* frequency.
C27_StepsAddUp ==
    (Done("create_scale") /\ GoodStart(request.note) /\ ret.exc = "None") =>
        /\ \A k \in 1..Len(request.scale.increment) :
               ret.value[k + 1].frequency
                   = RealMul(StartFrequency(request.system, request.note),
                             Ratio(request.system, Cumulative(request.scale.increment, k)))
        /\ \A k \in 1..(Len(ret.value) - 7) :
               ret.value[k + 7].frequency = Twice(ret.value[k].frequency)

\* the notation of the same pitch one octave higher
SignedDecimal(n) == IF n < 0 THEN <<"-">> \o Decimal(0 - n) ELSE Decimal(n)
OctaveAbove(s) ==
    Bind(CHOOSE k \in AccidentalLengths(s) : TRUE, LAMBDA k :
        SubSeq(s, 1, k + 1) \o SignedDecimal(int(SubSeq(s, k + 2, Len(s))) + 1))

\* C28: in both systems, for every letter, accidental and octave k, the note
\* of that pitch in octave k + 1 has twice the frequency of the note in
\* octave k.
C28_OctaveDoubles ==
    (Done("create_note") /\ WellFormed(request.notation) /\ ret.exc = "None") =>
        Bind(create_note(request.system, OctaveAbove(request.notation)), LAMBDA above :
            /\ above.exc = "None"
            /\ above.value.frequency = Twice(ret.value.frequency))

====
